---- MODULE Spec2Model ----
(***************************************************************************)
(* The workflow execution engine of frog: the workflow model and its DAG   *)
(* validator (app/models.py), the scheduler, the node executor, the event  *)
(* stream and the summary (app/engine.py) and the tool dispatch registry   *)
(* (app/registry.py).                                                      *)
(*                                                                         *)
(* run_workflow is an async generator: one action models the code that     *)
(* runs between two of its yields, and `events` is the stream it has       *)
(* yielded so far.  Spec is one run of run_workflow on a workflow drawn    *)
(* from DrawWorkflow; SpecExec is one direct call of execute_node on a        *)
(* workflow and a map of recorded results drawn from bounded sets.         *)
(*                                                                         *)
(* SpecVault is the serving process seen from app/vault.py: store_secret   *)
(* and inject_secrets calls in any order, under each configuration of      *)
(* app/config.py.  SpecRuns is the process seen from the session pool of   *)
(* app/registry.py: contexts are built for concurrently served requests    *)
(* and their runs execute browser.search nodes.                            *)
(*                                                                         *)
(* Randomness.  os.urandom can return any value: a generated vault key and *)
(* a request id are drawn from small sets, equal draws included.           *)
(*                                                                         *)
(* Values.  A declared parameter value is Lit(s); a node result, a log     *)
(* entry and an event are records.  The timestamp of a log entry and the   *)
(* code_length of python.exec's entry are left out: nothing reads them.    *)
(***************************************************************************)
EXTENDS Integers, Sequences, FiniteSets, TLC

VARIABLES
    workflow,         \* the Workflow handed to run_workflow / execute_node
    pc,               \* position of the generator (or of the direct call)
    i,                \* index into execution_order of the for loop
    execution_order,  \* result of topological_sort
    node_results,     \* run_workflow's node_results dict
    execution_log,    \* context.execution_log
    events,           \* the events yielded so far, in order
    tool_calls,       \* history: every adapter invocation with its params
    ret,              \* outcome of the direct execute_node call (SpecExec)
    settings,         \* app/config.py: settings.openai_key, settings.vault_key
    SECRET_STORE,     \* app/vault.py: account id -> key -> encrypted value
    contexts,         \* the WorkflowContext objects inject_secrets returned
    inject_calls,     \* history: per context, the keys whose decryption succeeded
    active_sessions,  \* app/registry.py: session id -> browser session
    session_ops,      \* history: every access to active_sessions, with its run
    request,          \* app/api.py: the request being served (header and body)
    response          \* app/api.py: what the caller receives for it

engine_vars == <<workflow, pc, i, execution_order, node_results, execution_log,
                 events, tool_calls, ret>>

vault_vars == <<settings, SECRET_STORE, contexts, inject_calls, active_sessions,
                session_ops>>

api_vars == <<request, response>>

vars == <<workflow, pc, i, execution_order, node_results, execution_log,
          events, tool_calls, ret, settings, SECRET_STORE, contexts,
          inject_calls, active_sessions, session_ops, request, response>>

---------------------------------------------------------------------------
(* Bounds and input sets *)

MaxNodes == 2

MaxExecNodes == 1

NodeIdSeq == <<"A", "B", "C">>

NodeIds == {NodeIdSeq[k] : k \in 1..Len(NodeIdSeq)}

IdIndex(n) == CHOOSE k \in 1..Len(NodeIdSeq) : NodeIdSeq[k] = n

Range(s) == {s[k] : k \in 1..Len(s)}

Lit(s) == [literal |-> s]

EmptyMap == <<>>

\* Keys of TOOL_REGISTRY.
TOOL_REGISTRY ==
    {"browser.search", "browser.navigate", "browser.extract",
     "browser.screenshot", "browser.close", "python.exec", "http.request"}

\* Tool definitions of the input workflows: a registered tool that succeeds,
\* one that returns an error-keyed result, one whose call raises, one whose
\* outcome depends on the network, and an unregistered type.
ToolProfiles ==
    {[type |-> "python.exec",   parameters |-> [code |-> Lit("print(1)")]],
     [type |-> "python.exec",   parameters |-> EmptyMap],
     [type |-> "browser.close", parameters |-> EmptyMap],
     [type |-> "http.request",  parameters |-> [url |-> Lit("http://x")]],
     [type |-> "invalid.tool",  parameters |-> EmptyMap]}

\* A declared parameter whose key is the synthetic key of a dependency.
CollidingProfile ==
    [type |-> "python.exec",
     parameters |-> [code |-> Lit("print(1)"), dep_A |-> Lit("declared")]]

\* depends_on lists of the input workflows (an id that no node declares is a
\* dangling reference; <<"A","A">> names a dependency twice).
DepLists ==
    {<<>>} \cup {<<a>> : a \in NodeIds}
           \cup {<<"A", "A">>, <<"A", "B">>}

\* Id sequences up to renaming: an id is used only after the ids before it
\* in NodeIdSeq; duplicate ids are allowed (nothing in the models rejects them).
IdSeqs(n) ==
    {s \in [1..n -> NodeIds] :
        \A k \in 1..n :
            IdIndex(s[k]) > 1 =>
                \E j \in 1..(k - 1) : IdIndex(s[j]) = IdIndex(s[k]) - 1}

MakeWorkflow(ids, prof, deps) ==
    [id |-> "wf", name |-> "wf",
     nodes |-> [k \in DOMAIN ids |->
                   [id |-> ids[k], tool |-> prof[k], depends_on |-> deps[k]]]]

\* workflow is one of the workflows of at most max nodes over profiles.
DrawWorkflow(wf, max, profiles) ==
    \E n \in 0..max :
        \E ids \in IdSeqs(n), prof \in [1..n -> profiles],
           deps \in [1..n -> DepLists] :
            wf = MakeWorkflow(ids, prof, deps)

---------------------------------------------------------------------------
(* app/models.py *)

NodeIdSet(wf) == {wf.nodes[k].id : k \in 1..Len(wf.nodes)}

\* validate_dag that checks the references of the first node only.
validate_dag_first_only(wf) ==
    \A k \in 1..Len(wf.nodes) :
        k = 1 => \A j \in 1..Len(wf.nodes[k].depends_on) :
                    wf.nodes[k].depends_on[j] \in NodeIdSet(wf)

\* validate_dag that also refuses a node naming itself as a dependency.
validate_dag_rejects_self_dependency(wf) ==
    \A k \in 1..Len(wf.nodes) :
        \A j \in 1..Len(wf.nodes[k].depends_on) :
            /\ wf.nodes[k].depends_on[j] \in NodeIdSet(wf)
            /\ wf.nodes[k].depends_on[j] # wf.nodes[k].id

\* Workflow.validate_dag: every depends_on reference names a declared id.
validate_dag(wf) ==
    \A k \in 1..Len(wf.nodes) :
        \A j \in 1..Len(wf.nodes[k].depends_on) :
            wf.nodes[k].depends_on[j] \in NodeIdSet(wf)

---------------------------------------------------------------------------
(* app/engine.py: topological_sort *)

\* graph = {node.id: node.depends_on for node in workflow.nodes}: the keys in
\* the order of their first declaration, the value of a key that of its last.
RECURSIVE GraphKeysFrom(_, _, _)
GraphKeysFrom(wf, k, seen) ==
    IF k > Len(wf.nodes) THEN <<>>
    ELSE IF wf.nodes[k].id \in seen THEN GraphKeysFrom(wf, k + 1, seen)
    ELSE <<wf.nodes[k].id>> \o GraphKeysFrom(wf, k + 1, seen \cup {wf.nodes[k].id})

GraphKeys(wf) == GraphKeysFrom(wf, 1, {})

Graph(wf) ==
    [n \in NodeIdSet(wf) |->
        LET last == CHOOSE k \in 1..Len(wf.nodes) :
                        /\ wf.nodes[k].id = n
                        /\ \A j \in (k + 1)..Len(wf.nodes) : wf.nodes[j].id # n
        IN  wf.nodes[last].depends_on]

Count(x, s) == Cardinality({j \in 1..Len(s) : s[j] = x})

RECURSIVE SumCounts(_, _, _)
SumCounts(x, graph, keys) ==
    IF keys = <<>> THEN 0
    ELSE Count(x, graph[Head(keys)]) + SumCounts(x, graph, Tail(keys))

\* Lines 17-21: in_degree[dep] += 1 for every dep of every node that is a key.
InDegree(wf) ==
    [n \in NodeIdSet(wf) |-> SumCounts(n, Graph(wf), GraphKeys(wf))]

\* The iteration orders a set of ids can have (str hashes are randomised
\* per process, so the order of node_ids is any permutation).
SetOrders(S) ==
    {s \in [1..Cardinality(S) -> S] :
        \A a, b \in 1..Cardinality(S) : a # b => s[a] # s[b]}

\* Lines 31-35: for node_id, deps in graph.items(): if current in deps ...
RECURSIVE UpdateDependents(_, _, _, _)
UpdateDependents(current, graph, keys, st) ==
    IF keys = <<>> THEN st
    ELSE LET node_id == Head(keys)
             hit     == current \in Range(graph[node_id])
             deg     == IF hit THEN st.in_degree[node_id] - 1
                        ELSE st.in_degree[node_id]
             st2     == [in_degree |-> [st.in_degree EXCEPT ![node_id] = deg],
                         queue |-> IF hit /\ deg = 0
                                   THEN Append(st.queue, node_id)
                                   ELSE st.queue]
         IN  UpdateDependents(current, graph, Tail(keys), st2)

\* Lines 26-35: while queue: current = queue.pop(0); result.append(current)
RECURSIVE KahnLoop(_, _, _, _)
KahnLoop(graph, keys, st, result) ==
    IF st.queue = <<>> THEN result
    ELSE LET current == Head(st.queue)
             popped  == [st EXCEPT !.queue = Tail(st.queue)]
         IN  KahnLoop(graph, keys,
                      UpdateDependents(current, graph, keys, popped),
                      Append(result, current))

\* topological_sort without the length check of lines 37-38.
topological_sort_unchecked(wf, set_order) ==
    LET in_degree == InDegree(wf)
        queue     == SelectSeq(set_order, LAMBDA n : in_degree[n] = 0)
    IN  [raised |-> FALSE, error |-> "",
         order |-> KahnLoop(Graph(wf), GraphKeys(wf),
                            [in_degree |-> in_degree, queue |-> queue], <<>>)]

\* topological_sort(workflow), for the iteration order set_order of node_ids.
topological_sort(wf, set_order) ==
    LET graph     == Graph(wf)
        in_degree == InDegree(wf)
        queue     == SelectSeq(set_order, LAMBDA n : in_degree[n] = 0)
        result    == KahnLoop(graph, GraphKeys(wf),
                              [in_degree |-> in_degree, queue |-> queue], <<>>)
    IN  IF Len(result) # Cardinality(NodeIdSet(wf))
        THEN [raised |-> TRUE, error |-> "Workflow contains cycles", order |-> <<>>]
        ELSE [raised |-> FALSE, error |-> "", order |-> result]

---------------------------------------------------------------------------
(* app/registry.py: the adapters the input workflows dispatch to *)

Truthy(params, key) == key \in DOMAIN params /\ params[key] # Lit("")

\* What adapter(params, context) can do: raise, or return a result after
\* appending its own entries to ctx.execution_log.
Returned(result, entries) ==
    [raised |-> FALSE, error |-> "", result |-> result, entries |-> entries]

Raised(error, entries) ==
    [raised |-> TRUE, error |-> error, result |-> EmptyMap, entries |-> entries]

\* python_exec: the mock execution always succeeds once code is given.
python_exec(params) ==
    IF ~Truthy(params, "code")
    THEN {Returned([error |-> "No code provided"], <<>>)}
    ELSE {Returned([output |-> "# Executed code: " \o params["code"].literal,
                    status |-> "success"],
                   <<[tool |-> "python.exec", status |-> "success"]>>)}

\* http_request: the request succeeds, or httpx raises and the adapter
\* catches it.
http_request(params) ==
    IF ~Truthy(params, "url")
    THEN {Returned([error |-> "No URL provided"], <<>>)}
    ELSE {Returned([status_code |-> 200, url |-> params["url"].literal],
                   <<[tool |-> "http.request", method |-> "GET",
                      url |-> params["url"].literal, status_code |-> 200]>>),
          Returned([error |-> "connection failed", status |-> "error"],
                   <<[tool |-> "http.request", error |-> "connection failed",
                      status |-> "error"]>>)}

\* close_browser_session(ctx) takes one argument: the executor's call
\* adapter(params, context) raises TypeError before the body runs.
close_browser_session(params) ==
    {Raised("close_browser_session() takes 1 positional argument but 2 were given",
            <<>>)}

AdapterOutcomes(type, params) ==
    CASE type = "python.exec"   -> python_exec(params)
      [] type = "http.request"  -> http_request(params)
      [] type = "browser.close" -> close_browser_session(params)

\* get_tool_adapter: TOOL_REGISTRY.get(tool_name), ValueError when absent.
get_tool_adapter(tool_name) ==
    IF tool_name \in TOOL_REGISTRY
    THEN [raised |-> FALSE, error |-> ""]
    ELSE [raised |-> TRUE, error |-> "Unknown tool: " \o tool_name]

---------------------------------------------------------------------------
(* app/engine.py: execute_node *)

DepKey(dep_id) == "dep_" \o dep_id

\* Parameters without the dependency results.
BuildParams_declared_only(node, results) == node.tool.parameters

\* Lines 60-67: params = node.tool.parameters.copy(); params[dep_<d>] = result.
BuildParams(node, results) ==
    LET deps == Range(node.depends_on)
        decl == node.tool.parameters
    IN  [k \in DOMAIN decl \cup {DepKey(d) : d \in deps} |->
            IF \E d \in deps : DepKey(d) = k
            THEN results[CHOOSE d \in deps : DepKey(d) = k]
            ELSE decl[k]]

\* An error result that does not name its node.
ErrorResult_anonymous(node_id, error) == [error |-> error]

\* Lines 83-94: the error result and the engine's log entry of a failed node.
ErrorResult(node_id, error) == [error |-> error, node_id |-> node_id]

\* A failure entry that does not name its node.
ErrorEntry_no_node(node_id, type, error) ==
    [tool_type |-> type, status |-> "error", error |-> error]

ErrorEntry(node_id, type, error) ==
    [node_id |-> node_id, tool_type |-> type, status |-> "error", error |-> error]

SuccessEntry(node_id, type) ==
    [node_id |-> node_id, tool_type |-> type, status |-> "success"]

\* A raise that first records the failure in the log.
NodeRaise_logs(error, log) ==
    [raised |-> TRUE, error |-> error, result |-> EmptyMap,
     log |-> Append(log, [status |-> "error", error |-> error]),
     calls |-> <<>>]

NodeRaise(error, log) ==
    [raised |-> TRUE, error |-> error, result |-> EmptyMap, log |-> log,
     calls |-> <<>>]

\* A return whose last log entry was inserted at the head of the log.
NodeReturn_prepends(result, log, calls) ==
    [raised |-> FALSE, error |-> "", result |-> result,
     log |-> IF log = <<>> THEN log
             ELSE <<log[Len(log)]>> \o SubSeq(log, 1, Len(log) - 1),
     calls |-> calls]

NodeReturn(result, log, calls) ==
    [raised |-> FALSE, error |-> "", result |-> result, log |-> log,
     calls |-> calls]

\* The outcomes execute_node(node_id, workflow, context, node_results) can
\* have: it raises (ValueError of lines 53 and 58), or it returns a result;
\* log is context.execution_log afterwards, calls the adapter invocations.
execute_node(node_id, wf, log, results) ==
    IF \A k \in 1..Len(wf.nodes) : wf.nodes[k].id # node_id
    THEN {NodeRaise("Node " \o node_id \o " not found in workflow", log)}
    ELSE
    LET first == CHOOSE k \in 1..Len(wf.nodes) :
                    /\ wf.nodes[k].id = node_id
                    /\ \A j \in 1..(k - 1) : wf.nodes[j].id # node_id
        node  == wf.nodes[first]
        deps  == node.depends_on
        type  == node.tool.type
    IN  IF \E j \in 1..Len(deps) : deps[j] \notin DOMAIN results
        THEN LET miss == CHOOSE j \in 1..Len(deps) :
                            /\ deps[j] \notin DOMAIN results
                            /\ \A m \in 1..(j - 1) : deps[m] \in DOMAIN results
             IN  {NodeRaise("Dependency " \o deps[miss] \o " not satisfied for node "
                              \o node_id, log)}
        ELSE
        LET params == BuildParams(node, results)
            lookup == get_tool_adapter(type)
            call   == [node_id |-> node_id, tool_type |-> type, params |-> params]
        IN  IF lookup.raised
            THEN {NodeReturn(ErrorResult(node_id, lookup.error),
                             Append(log, ErrorEntry(node_id, type, lookup.error)),
                             <<>>)}
            ELSE {IF o.raised
                  THEN NodeReturn(ErrorResult(node_id, o.error),
                                  Append(log \o o.entries,
                                         ErrorEntry(node_id, type, o.error)),
                                  <<call>>)
                  ELSE NodeReturn(o.result,
                                  Append(log \o o.entries, SuccessEntry(node_id, type)),
                                  <<call>>)
                  : o \in AdapterOutcomes(type, params)}

---------------------------------------------------------------------------
(* app/engine.py: generate_workflow_summary *)

\* A summary whose lines run from the last declared node to the first.
generate_workflow_summary_reversed(wf, results) ==
    [header |-> wf.name,
     lines  |-> [k \in 1..Len(wf.nodes) |->
                    LET id     == wf.nodes[Len(wf.nodes) + 1 - k].id
                        result == IF id \in DOMAIN results THEN results[id]
                                  ELSE EmptyMap
                    IN  IF "error" \in DOMAIN result
                        THEN [node_id |-> id, mark |-> "failed",
                              error |-> result["error"]]
                        ELSE [node_id |-> id, mark |-> "success", error |-> ""]],
     successful |-> Cardinality({n \in DOMAIN results :
                                    "error" \notin DOMAIN results[n]}),
     total      |-> Len(wf.nodes)]

\* One line per declared node, in declaration order, then the aggregate line.
generate_workflow_summary(wf, results) ==
    [header |-> wf.name,
     lines  |-> [k \in 1..Len(wf.nodes) |->
                    LET id     == wf.nodes[k].id
                        result == IF id \in DOMAIN results THEN results[id]
                                  ELSE EmptyMap
                    IN  IF "error" \in DOMAIN result
                        THEN [node_id |-> id, mark |-> "failed",
                              error |-> result["error"]]
                        ELSE [node_id |-> id, mark |-> "success", error |-> ""]],
     successful |-> Cardinality({n \in DOMAIN results :
                                    "error" \notin DOMAIN results[n]}),
     total      |-> Len(wf.nodes)]

---------------------------------------------------------------------------
(* app/config.py and app/vault.py *)

\* None and the empty string: every test vault.py makes on an optional
\* value is a truth test, which the two fail alike.
None == ""

Accounts == {"acct1", "acct2"}

SecretKeys == {"OPENAI_API_KEY", "TOKEN"}

\* The secret values the accounts store: each account has its own.
SecretValues == [a \in Accounts |-> IF a = "acct1" THEN {"v1"} ELSE {"v2"}]

\* The vault keys Fernet accepts (32 url-safe base64-encoded bytes).
ValidVaultKeys == {"k1"}

\* Values generate_vault_key can return; os.urandom(32) can return any.
GeneratedKeys == {"r1", "r2"}

\* Values of f"req_{b64(os.urandom(8))}"; os.urandom(8) can return any.
RequestIds == {"req_AAAAAAAAAAA=", "req_AAAAAAAAAAE="}

MaxSecrets == 2

MaxContexts == 2

MaxSearches == 2

\* Settings: both fields are optional and default to None; a vault key that
\* is set can still be one Fernet rejects.
SettingsChoices ==
    [openai_key : {None, "sk-global"}, vault_key : {None, "k1", "not-a-key"}]

generate_vault_key == GeneratedKeys

\* get_fernet: the configured key when it is set and valid, otherwise a key
\* generated for this one call.
get_fernet(cfg) ==
    IF cfg.vault_key = None
    THEN generate_vault_key
    ELSE IF cfg.vault_key \in ValidVaultKeys
         THEN {cfg.vault_key}
         ELSE generate_vault_key

\* A Fernet token is readable with the key it was made with, and only it.
encrypt_secret(value, cfg) ==
    {[fernet_key |-> k, plaintext |-> value] : k \in get_fernet(cfg)}

decrypt_secret(encrypted_value, cfg) ==
    {IF encrypted_value.fernet_key = k
     THEN [raised |-> FALSE, value |-> encrypted_value.plaintext]
     ELSE [raised |-> TRUE, value |-> ""] : k \in get_fernet(cfg)}

PutSecret(store, account_id, key, encrypted) ==
    LET old == IF account_id \in DOMAIN store THEN store[account_id] ELSE EmptyMap
    IN  [a \in DOMAIN store \cup {account_id} |->
            IF a = account_id
            THEN [k \in DOMAIN old \cup {key} |->
                     IF k = key THEN encrypted ELSE old[k]]
            ELSE store[a]]

\* A store_secret that files the secret under every account of the store.
store_secret_every_account(store, account_id, key, value, cfg) ==
    {[a \in DOMAIN store \cup {account_id} |-> PutSecret(store, a, key, e)[a]] :
        e \in encrypt_secret(value, cfg)}

\* store_secret: the stores SECRET_STORE can be after the call.
store_secret(store, account_id, key, value, cfg) ==
    {PutSecret(store, account_id, key, e) : e \in encrypt_secret(value, cfg)}

WorkflowContext(request_id, account_id, secrets) ==
    [request_id |-> request_id, account_id |-> account_id, secrets |-> secrets,
     execution_log |-> <<>>]

\* What inject_secrets returns and, for the record, the keys of the account
\* whose decryption succeeded.
Injected(context, decrypted) ==
    [context |-> context, decrypted |-> decrypted]

CanDecrypt(encrypted_value, cfg) ==
    \E o \in decrypt_secret(encrypted_value, cfg) : ~o.raised

CanFail(encrypted_value, cfg) ==
    \E o \in decrypt_secret(encrypted_value, cfg) : o.raised

\* Lines 82-84: the common secrets.
CommonSecrets(cfg) ==
    IF cfg.openai_key # None
    THEN [k \in {"OPENAI_API_KEY"} |-> cfg.openai_key]
    ELSE EmptyMap

\* Lines 87-92: the account's entries overwrite the common secrets, one
\* assignment per entry that decrypted.
MergeSecrets(common, entries, decrypted) ==
    [k \in DOMAIN common \cup decrypted |->
        IF k \in decrypted THEN entries[k].plaintext ELSE common[k]]

\* The sets of keys the loop of lines 88-92 can decrypt.
DecryptedSets(entries, cfg) ==
    {D \in SUBSET DOMAIN entries :
        \A k \in DOMAIN entries :
            /\ k \in D => CanDecrypt(entries[k], cfg)
            /\ k \notin D => CanFail(entries[k], cfg)}

EntriesOf(store, account_id) ==
    IF account_id \in DOMAIN store THEN store[account_id] ELSE EmptyMap

\* An inject_secrets without the early return of lines 78-79.
inject_secrets_no_guard(account_id, store, cfg, request_id) ==
    LET entries == EntriesOf(store, account_id)
    IN  {Injected(WorkflowContext(request_id, account_id,
                      MergeSecrets(CommonSecrets(cfg), entries, D)),
                  D) : D \in DecryptedSets(entries, cfg)}

\* An inject_secrets that reads the entries of every account of the store.
inject_secrets_all_accounts(account_id, store, cfg, request_id) ==
    IF account_id = None
    THEN {Injected(WorkflowContext(request_id, account_id, EmptyMap), {})}
    ELSE LET keys    == UNION {DOMAIN store[a] : a \in DOMAIN store}
             entries == [k \in keys |->
                            store[CHOOSE a \in DOMAIN store : k \in DOMAIN store[a]][k]]
         IN  {Injected(WorkflowContext(request_id, account_id,
                           MergeSecrets(CommonSecrets(cfg), entries, D)),
                       D) : D \in DecryptedSets(entries, cfg)}

\* An inject_secrets that gives up the account's secrets when one of them
\* does not decrypt.
inject_secrets_all_or_nothing(account_id, store, cfg, request_id) ==
    IF account_id = None
    THEN {Injected(WorkflowContext(request_id, account_id, EmptyMap), {})}
    ELSE LET entries == EntriesOf(store, account_id)
         IN  {Injected(WorkflowContext(request_id, account_id,
                           MergeSecrets(CommonSecrets(cfg), entries,
                                        IF D = DOMAIN entries THEN D ELSE {})),
                       D) : D \in DecryptedSets(entries, cfg)}

\* The outcomes of inject_secrets(workflow, account_id) with request id
\* request_id drawn.
inject_secrets(account_id, store, cfg, request_id) ==
    IF account_id = None
    THEN {Injected(WorkflowContext(request_id, account_id, EmptyMap), {})}
    ELSE LET entries == EntriesOf(store, account_id)
         IN  {Injected(WorkflowContext(request_id, account_id,
                           MergeSecrets(CommonSecrets(cfg), entries, D)),
                       D) : D \in DecryptedSets(entries, cfg)}

\* The module state of config.py, vault.py and registry.py once imported
\* with no environment set.
VaultAtImport ==
    /\ settings = [openai_key |-> None, vault_key |-> None]
    /\ SECRET_STORE = EmptyMap
    /\ contexts = <<>>
    /\ inject_calls = <<>>
    /\ active_sessions = EmptyMap
    /\ session_ops = <<>>

\* No request is being served through the API.
NoRequest == [absent |-> TRUE]

NoResponse == [absent |-> TRUE]

OutsideApi ==
    /\ request = NoRequest
    /\ response = NoResponse

---------------------------------------------------------------------------
(* app/registry.py: browser_search and the session pool *)

SessionOp(op, session_id) == [op |-> op, session_id |-> session_id]

\* What browser_search(params, ctx) can do to active_sessions and to
\* ctx.execution_log, and what it returns.
Searched(result, sessions, entries, ops) ==
    [result |-> result, sessions |-> sessions, entries |-> entries, ops |-> ops]

SearchFailed(e) ==
    [tool |-> "browser.search", error |-> e, status |-> "error"]

SearchDone(query, session_type) ==
    [tool |-> "browser.search", query |-> query, results_count |-> 0,
     browser_type |-> session_type]

\* Lines 115-206: the search on the session of the run; it returns results
\* or an exception is caught.
SearchWith(query, session_id, sessions, ops) ==
    LET session_type == sessions[session_id].type
        read         == Append(ops, SessionOp("read", session_id))
    IN  {Searched([results |-> <<>>, query |-> query], sessions,
                  <<SearchDone(query, session_type)>>, read),
         Searched([error |-> "Search failed: timeout"], sessions,
                  <<SearchFailed("timeout")>>, read)}

\* Lines 93-114: no query, no search; otherwise the session filed under the
\* request id of the context is used, created first when there is none
\* (the creation can raise, which the handler of line 199 catches).
browser_search(params, ctx, sessions) ==
    IF params.query = ""
    THEN {Searched([error |-> "No search query provided"], sessions, <<>>, <<>>)}
    ELSE LET session_id == ctx.request_id
         IN  IF session_id \notin DOMAIN sessions
             THEN LET kind    == IF params.use_selenium THEN "selenium"
                                 ELSE "playwright"
                      created == [s \in DOMAIN sessions \cup {session_id} |->
                                     IF s = session_id THEN [type |-> kind]
                                     ELSE sessions[s]]
                  IN  {Searched([error |-> "Search failed: no browser"], sessions,
                                <<SearchFailed("no browser")>>, <<>>)}
                      \cup SearchWith(params.query, session_id, created,
                                      <<SessionOp("create", session_id)>>)
             ELSE SearchWith(params.query, session_id, sessions, <<>>)

---------------------------------------------------------------------------
(* app/registry.py: the other adapters that use the session pool, called   *)
(* with the context of a run (ctx.variables is not part of the state)      *)

\* The session pool with the session of session_id filed or replaced.
WithSession(sessions, session_id, kind) ==
    [s \in DOMAIN sessions \cup {session_id} |->
        IF s = session_id THEN [type |-> kind] ELSE sessions[s]]

\* The session pool after del active_sessions[session_id].
WithoutSession(sessions, session_id) ==
    [s \in DOMAIN sessions \ {session_id} |-> sessions[s]]

ToolFailed(tool, e) == [tool |-> tool, error |-> e, status |-> "error"]

NoSessionError ==
    [error |-> "No active browser session. Use browser.navigate first."]

\* Lines 228-293: the page is loaded in the session of the run, or an
\* exception is caught.
NavigateWith(url, session_id, sessions, ops) ==
    LET session_type == sessions[session_id].type
        read         == Append(ops, SessionOp("read", session_id))
    IN  {Searched([url |-> url, title |-> "", success |-> TRUE], sessions,
                  <<[tool |-> "browser.navigate", url |-> url, success |-> TRUE,
                     browser_type |-> session_type]>>, read),
         Searched([error |-> "Navigation failed: timeout"], sessions,
                  <<ToolFailed("browser.navigate", "timeout")>>, read)}

\* browser_navigate that files an error entry when no URL is given.
browser_navigate_logs_missing_url(params, ctx, sessions) ==
    IF params.url = ""
    THEN {Searched([error |-> "No URL provided"], sessions,
                   <<ToolFailed("browser.navigate", "No URL provided")>>, <<>>)}
    ELSE NavigateWith(params.url, ctx.request_id,
                      WithSession(sessions, ctx.request_id, "playwright"), <<>>)

\* browser_navigate that opens the kind of session the call asks for, in
\* place of the one the run already has.
browser_navigate_honours_use_selenium(params, ctx, sessions) ==
    IF params.url = ""
    THEN {Searched([error |-> "No URL provided"], sessions, <<>>, <<>>)}
    ELSE LET kind == IF params.use_selenium THEN "selenium" ELSE "playwright"
             ops  == IF ctx.request_id \in DOMAIN sessions THEN <<>>
                     ELSE <<SessionOp("create", ctx.request_id)>>
         IN  NavigateWith(params.url, ctx.request_id,
                          WithSession(sessions, ctx.request_id, kind), ops)

\* browser_navigate(params, ctx): lines 209-293.
browser_navigate(params, ctx, sessions) ==
    IF params.url = ""
    THEN {Searched([error |-> "No URL provided"], sessions, <<>>, <<>>)}
    ELSE LET session_id == ctx.request_id
         IN  IF session_id \notin DOMAIN sessions
             THEN LET kind == IF params.use_selenium THEN "selenium"
                              ELSE "playwright"
                  IN  {Searched([error |-> "Navigation failed: no browser"],
                                sessions,
                                <<ToolFailed("browser.navigate", "no browser")>>,
                                <<>>)}
                      \cup NavigateWith(params.url, session_id,
                                        WithSession(sessions, session_id, kind),
                                        <<SessionOp("create", session_id)>>)
             ELSE NavigateWith(params.url, session_id, sessions, <<>>)

\* browser_extract that skips the test for an active session and opens one.
browser_extract_opens_session(params, ctx, sessions) ==
    IF params.selector = ""
    THEN {Searched([error |-> "No CSS selector provided"], sessions, <<>>, <<>>)}
    ELSE LET session_id == ctx.request_id
             opened     == WithSession(sessions, session_id, "playwright")
         IN  {Searched([results |-> <<>>, selector |-> params.selector,
                        type |-> "text", count |-> 0], opened,
                       <<[tool |-> "browser.extract", selector |-> params.selector,
                          type |-> "text", results_count |-> 0,
                          browser_type |-> opened[session_id].type]>>,
                       <<SessionOp("read", session_id)>>)}

\* browser_extract(params, ctx): lines 296-378.
browser_extract(params, ctx, sessions) ==
    IF params.selector = ""
    THEN {Searched([error |-> "No CSS selector provided"], sessions, <<>>, <<>>)}
    ELSE LET session_id == ctx.request_id
         IN  IF session_id \notin DOMAIN sessions
             THEN {Searched(NoSessionError, sessions, <<>>, <<>>)}
             ELSE LET read == <<SessionOp("read", session_id)>>
                  IN  {Searched([results |-> <<>>, selector |-> params.selector,
                                 type |-> "text", count |-> 0], sessions,
                                <<[tool |-> "browser.extract",
                                   selector |-> params.selector, type |-> "text",
                                   results_count |-> 0,
                                   browser_type |-> sessions[session_id].type]>>,
                                read),
                       Searched([error |-> "Content extraction failed: timeout"],
                                sessions,
                                <<ToolFailed("browser.extract", "timeout")>>, read)}

\* browser_screenshot(params, ctx): lines 382-472. On a playwright session
\* line 404 awaits page.url(), the call of a str, which raises; the handler
\* of line 465 catches it.
browser_screenshot(params, ctx, sessions) ==
    LET session_id == ctx.request_id
    IN  IF session_id \notin DOMAIN sessions
        THEN {Searched(NoSessionError, sessions, <<>>, <<>>)}
        ELSE LET read   == <<SessionOp("read", session_id)>>
                 failed == Searched([error |-> "Screenshot failed: exception"],
                                    sessions,
                                    <<ToolFailed("browser.screenshot", "exception")>>,
                                    read)
                 target == IF params.selector = "" THEN "viewport"
                           ELSE params.selector
             IN  IF sessions[session_id].type = "playwright"
                 THEN {failed}
                 ELSE {failed,
                       Searched([screenshot |-> "png", url |-> "", target |-> target,
                                 success |-> TRUE], sessions,
                                <<[tool |-> "browser.screenshot", url |-> "",
                                   target |-> target, success |-> TRUE,
                                   browser_type |-> "selenium"]>>, read)}
                      \cup IF params.selector = "" THEN {}
                           ELSE {Searched([error |-> "Element not found with selector: "
                                                       \o params.selector],
                                          sessions, <<>>, read)}

\* close_browser_session that drops the session whatever closing it does.
close_session_always_removes(ctx, sessions) ==
    LET session_id == ctx.request_id
    IN  IF session_id \notin DOMAIN sessions
        THEN {Searched([success |-> FALSE, error |-> "No active session to close"],
                       sessions, <<>>, <<>>)}
        ELSE {Searched([error |-> "Failed to close browser session: exception"],
                       WithoutSession(sessions, session_id),
                       <<ToolFailed("browser.close", "exception")>>,
                       <<SessionOp("read", session_id)>>)}

\* close_browser_session(ctx) called with the context alone, lines 475-517:
\* the session is closed and removed, or closing raises and it stays (the
\* Browserbase id in the replay URL is written as the session id).
close_session(ctx, sessions) ==
    LET session_id == ctx.request_id
    IN  IF session_id \notin DOMAIN sessions
        THEN {Searched([success |-> FALSE, error |-> "No active session to close"],
                       sessions, <<>>, <<>>)}
        ELSE LET replay_url == "https://browserbase.com/sessions/" \o session_id
             IN  {Searched([success |-> TRUE, replay_url |-> replay_url],
                           WithoutSession(sessions, session_id),
                           <<[tool |-> "browser.close", success |-> TRUE,
                              replay_url |-> replay_url,
                              browser_type |-> sessions[session_id].type]>>,
                           <<SessionOp("read", session_id),
                             SessionOp("delete", session_id)>>),
                  Searched([error |-> "Failed to close browser session: exception"],
                           sessions,
                           <<ToolFailed("browser.close", "exception")>>,
                           <<SessionOp("read", session_id)>>)}

---------------------------------------------------------------------------
(* app/engine.py: run_workflow, one action per stretch between two yields *)

Emit(e) == events' = Append(events, e)

NoCall == [called |-> FALSE]

\* A validation failure without the return of line 110: after the error
\* event the generator goes on to schedule the workflow.
RejectInvalid_no_return ==
    /\ pc = "start"
    /\ ~validate_dag(workflow)
    /\ \E set_order \in SetOrders(NodeIdSet(workflow)) :
          LET sorted == topological_sort(workflow, set_order)
              failed == [type |-> "workflow_error", error |-> "Invalid workflow DAG"]
          IN  IF sorted.raised
              THEN /\ events' = <<failed, [type |-> "workflow_error",
                                           error |-> sorted.error]>>
                   /\ pc' = "done"
                   /\ UNCHANGED execution_order
              ELSE /\ events' = <<failed,
                                  [type |-> "workflow_start",
                                   workflow_id |-> workflow.id,
                                   nodes |-> Len(workflow.nodes),
                                   execution_order |-> sorted.order]>>
                   /\ execution_order' = sorted.order
                   /\ pc' = IF sorted.order = <<>> THEN "summary" ELSE "node_start"
    /\ UNCHANGED <<workflow, i, node_results, execution_log, tool_calls, ret>>
    /\ UNCHANGED vault_vars
    /\ UNCHANGED api_vars

\* Lines 105-110: validation fails; one workflow_error, then return.
RejectInvalid ==
    /\ pc = "start"
    /\ ~validate_dag(workflow)
    /\ Emit([type |-> "workflow_error", error |-> "Invalid workflow DAG"])
    /\ pc' = "done"
    /\ UNCHANGED <<workflow, i, execution_order, node_results, execution_log,
                   tool_calls, ret>>
    /\ UNCHANGED vault_vars
    /\ UNCHANGED api_vars

\* Lines 113 and 173-177: topological_sort raises; the outer handler yields
\* one workflow_error.
RejectCycle ==
    /\ pc = "start"
    /\ validate_dag(workflow)
    /\ \E set_order \in SetOrders(NodeIdSet(workflow)) :
          LET sorted == topological_sort(workflow, set_order)
          IN  /\ sorted.raised
              /\ Emit([type |-> "workflow_error", error |-> sorted.error])
    /\ pc' = "done"
    /\ UNCHANGED <<workflow, i, execution_order, node_results, execution_log,
                   tool_calls, ret>>
    /\ UNCHANGED vault_vars
    /\ UNCHANGED api_vars

\* Lines 113-124: the order is computed and workflow_start is yielded.
WorkflowStart ==
    /\ pc = "start"
    /\ validate_dag(workflow)
    /\ \E set_order \in SetOrders(NodeIdSet(workflow)) :
          LET sorted == topological_sort(workflow, set_order)
          IN  /\ ~sorted.raised
              /\ execution_order' = sorted.order
              /\ Emit([type |-> "workflow_start", workflow_id |-> workflow.id,
                       nodes |-> Len(workflow.nodes),
                       execution_order |-> sorted.order])
              /\ pc' = IF sorted.order = <<>> THEN "summary" ELSE "node_start"
    /\ i' = 1
    /\ node_results' = EmptyMap
    /\ UNCHANGED <<workflow, execution_log, tool_calls, ret>>
    /\ UNCHANGED vault_vars
    /\ UNCHANGED api_vars

\* A loop that announces the node after the current one as well, before the
\* current one has run.
NodeStart_ahead ==
    /\ pc = "node_start"
    /\ events' = events
                    \o <<[type |-> "node_start", node_id |-> execution_order[i]]>>
                    \o (IF i < Len(execution_order)
                        THEN <<[type |-> "node_start",
                                node_id |-> execution_order[i + 1]]>>
                        ELSE <<>>)
    /\ pc' = "node_exec"
    /\ UNCHANGED <<workflow, i, execution_order, node_results, execution_log,
                   tool_calls, ret>>
    /\ UNCHANGED vault_vars
    /\ UNCHANGED api_vars

\* Lines 127-132: node_start of the next node of the order.
NodeStart ==
    /\ pc = "node_start"
    /\ Emit([type |-> "node_start", node_id |-> execution_order[i]])
    /\ pc' = "node_exec"
    /\ UNCHANGED <<workflow, i, execution_order, node_results, execution_log,
                   tool_calls, ret>>
    /\ UNCHANGED vault_vars
    /\ UNCHANGED api_vars

\* A loop that stops one node early.
AfterNode_stops_early ==
    IF i < Len(execution_order) - 1 THEN "node_start" ELSE "summary"

AfterNode == IF i < Len(execution_order) THEN "node_start" ELSE "summary"

Record(results, node_id, result) ==
    [n \in DOMAIN results \cup {node_id} |->
        IF n = node_id THEN result ELSE results[n]]

\* A run that fails fast: an error-keyed result escapes to the outer handler.
NodeComplete_fails_fast ==
    /\ pc = "node_exec"
    /\ \E out \in execute_node(execution_order[i], workflow, execution_log,
                               node_results) :
          /\ ~out.raised
          /\ execution_log' = out.log
          /\ tool_calls' = tool_calls \o out.calls
          /\ IF "error" \in DOMAIN out.result
             THEN /\ Emit([type |-> "workflow_error", error |-> out.result["error"]])
                  /\ pc' = "done"
                  /\ UNCHANGED <<i, node_results>>
             ELSE /\ node_results' = Record(node_results, execution_order[i],
                                            out.result)
                  /\ Emit([type |-> "node_complete",
                           node_id |-> execution_order[i], result |-> out.result])
                  /\ i' = i + 1
                  /\ pc' = AfterNode
    /\ UNCHANGED <<workflow, execution_order, ret>>
    /\ UNCHANGED vault_vars
    /\ UNCHANGED api_vars

\* A run whose executor writes the prepared parameters, dependency results
\* included, back into the node's tool definition.
NodeComplete_shared_parameters ==
    /\ pc = "node_exec"
    /\ \E out \in execute_node(execution_order[i], workflow, execution_log,
                               node_results) :
          /\ ~out.raised
          /\ node_results' = Record(node_results, execution_order[i], out.result)
          /\ execution_log' = out.log
          /\ tool_calls' = tool_calls \o out.calls
          /\ workflow' =
                IF out.calls = <<>> THEN workflow
                ELSE LET first == CHOOSE k \in 1..Len(workflow.nodes) :
                                     /\ workflow.nodes[k].id = execution_order[i]
                                     /\ \A j \in 1..(k - 1) :
                                           workflow.nodes[j].id # execution_order[i]
                     IN  [workflow EXCEPT !.nodes[first].tool.parameters =
                                              out.calls[1].params]
          /\ Emit([type |-> "node_complete", node_id |-> execution_order[i],
                   result |-> out.result])
    /\ i' = i + 1
    /\ pc' = AfterNode
    /\ UNCHANGED <<execution_order, ret>>
    /\ UNCHANGED vault_vars
    /\ UNCHANGED api_vars

\* Lines 136-144: execute_node returns; the result is recorded and yielded
\* as node_complete.
NodeComplete ==
    /\ pc = "node_exec"
    /\ \E out \in execute_node(execution_order[i], workflow, execution_log,
                               node_results) :
          /\ ~out.raised
          /\ node_results' = Record(node_results, execution_order[i], out.result)
          /\ execution_log' = out.log
          /\ tool_calls' = tool_calls \o out.calls
          /\ Emit([type |-> "node_complete", node_id |-> execution_order[i],
                   result |-> out.result])
    /\ i' = i + 1
    /\ pc' = AfterNode
    /\ UNCHANGED <<workflow, execution_order, ret>>
    /\ UNCHANGED vault_vars
    /\ UNCHANGED api_vars

\* Lines 146-155: execute_node raises; node_error is yielded and the error
\* recorded as the node's result.
NodeError ==
    /\ pc = "node_exec"
    /\ \E out \in execute_node(execution_order[i], workflow, execution_log,
                               node_results) :
          /\ out.raised
          /\ node_results' = Record(node_results, execution_order[i],
                                    [error |-> out.error])
          /\ execution_log' = out.log
          /\ tool_calls' = tool_calls \o out.calls
          /\ Emit([type |-> "node_error", node_id |-> execution_order[i],
                   error |-> out.error])
    /\ i' = i + 1
    /\ pc' = AfterNode
    /\ UNCHANGED <<workflow, execution_order, ret>>
    /\ UNCHANGED vault_vars
    /\ UNCHANGED api_vars

\* Lines 157-165: the summary is yielded as the message event.
EmitMessage ==
    /\ pc = "summary"
    /\ Emit([type |-> "message",
             content |-> generate_workflow_summary(workflow, node_results),
             role |-> "assistant"])
    /\ pc' = "complete"
    /\ UNCHANGED <<workflow, i, execution_order, node_results, execution_log,
                   tool_calls, ret>>
    /\ UNCHANGED vault_vars
    /\ UNCHANGED api_vars

\* A workflow_complete that carries the contexts next to the log.
WorkflowComplete_with_context ==
    /\ pc = "complete"
    /\ Emit([type |-> "workflow_complete", execution_log |-> execution_log,
             context |-> contexts])
    /\ pc' = "done"
    /\ UNCHANGED <<workflow, i, execution_order, node_results, execution_log,
                   tool_calls, ret>>
    /\ UNCHANGED vault_vars
    /\ UNCHANGED api_vars

\* Lines 167-171: workflow_complete carries the execution log.
WorkflowComplete ==
    /\ pc = "complete"
    /\ Emit([type |-> "workflow_complete", execution_log |-> execution_log])
    /\ pc' = "done"
    /\ UNCHANGED <<workflow, i, execution_order, node_results, execution_log,
                   tool_calls, ret>>
    /\ UNCHANGED vault_vars
    /\ UNCHANGED api_vars

Init ==
    /\ DrawWorkflow(workflow, MaxNodes, ToolProfiles)
    /\ pc = "start"
    /\ i = 1
    /\ execution_order = <<>>
    /\ node_results = EmptyMap
    /\ execution_log = <<>>
    /\ events = <<>>
    /\ tool_calls = <<>>
    /\ ret = NoCall
    /\ VaultAtImport
    /\ OutsideApi

Next ==
    \/ RejectInvalid
    \/ RejectCycle
    \/ WorkflowStart
    \/ NodeStart
    \/ NodeComplete
    \/ NodeError
    \/ EmitMessage
    \/ WorkflowComplete

Spec == Init /\ [][Next]_vars

---------------------------------------------------------------------------
(* A direct call execute_node(node_id, workflow, context, node_results) *)

\* Recorded results a caller can hand over: a success and a failure of n.
ResultSamples(n) ==
    {[output |-> "ok", status |-> "success"],
     ErrorResult(n, "Unknown tool: invalid.tool")}

ResultMaps ==
    UNION {{f \in [S -> UNION {ResultSamples(n) : n \in NodeIds}] :
               \A n \in S : f[n] \in ResultSamples(n)} : S \in SUBSET NodeIds}

InitExec ==
    /\ DrawWorkflow(workflow, MaxExecNodes, ToolProfiles \cup {CollidingProfile})
    /\ node_results \in ResultMaps
    /\ pc = "call"
    /\ i = 1
    /\ execution_order = <<>>
    /\ execution_log = <<>>
    /\ events = <<>>
    /\ tool_calls = <<>>
    /\ ret = NoCall
    /\ VaultAtImport
    /\ OutsideApi

ExecuteNodeCall ==
    /\ pc = "call"
    /\ \E node_id \in NodeIds :
          \E out \in execute_node(node_id, workflow, execution_log, node_results) :
              /\ ret' = [called |-> TRUE, node_id |-> node_id,
                         raised |-> out.raised, error |-> out.error,
                         result |-> out.result]
              /\ execution_log' = out.log
              /\ tool_calls' = out.calls
    /\ pc' = "returned"
    /\ UNCHANGED <<workflow, i, execution_order, node_results, events>>
    /\ UNCHANGED vault_vars
    /\ UNCHANGED api_vars

NextExec == ExecuteNodeCall

SpecExec == InitExec /\ [][NextExec]_vars

---------------------------------------------------------------------------
(* The serving process: store_secret and inject_secrets calls, and the     *)
(* browser searches of the runs whose contexts were built                  *)

Serving ==
    /\ workflow = MakeWorkflow(<<>>, <<>>, <<>>)
    /\ pc = "serving"
    /\ i = 1
    /\ execution_order = <<>>
    /\ node_results = EmptyMap
    /\ execution_log = <<>>
    /\ events = <<>>
    /\ tool_calls = <<>>
    /\ ret = NoCall
    /\ OutsideApi

InitVault ==
    /\ Serving
    /\ settings \in SettingsChoices
    /\ SECRET_STORE = EmptyMap
    /\ contexts = <<>>
    /\ inject_calls = <<>>
    /\ active_sessions = EmptyMap
    /\ session_ops = <<>>

SecretCount(store) ==
    Cardinality({<<a, k>> \in Accounts \X SecretKeys :
                    a \in DOMAIN store /\ k \in DOMAIN store[a]})

\* store_secret(account_id, key, value)
StoreSecret ==
    /\ pc = "serving"
    /\ \E account_id \in Accounts, key \in SecretKeys :
       \E value \in SecretValues[account_id] :
          /\ key \notin DOMAIN EntriesOf(SECRET_STORE, account_id)
                => SecretCount(SECRET_STORE) < MaxSecrets
          /\ SECRET_STORE' \in store_secret(SECRET_STORE, account_id, key, value,
                                            settings)
    /\ UNCHANGED <<settings, contexts, inject_calls, active_sessions, session_ops>>
    /\ UNCHANGED engine_vars
    /\ UNCHANGED api_vars

\* context = inject_secrets(workflow, request.account_id), the request id
\* being one of ids.
InjectSecretsWith(ids) ==
    /\ pc = "serving"
    /\ Len(contexts) < MaxContexts
    /\ \E account_id \in Accounts \cup {None}, request_id \in ids :
          \E out \in inject_secrets(account_id, SECRET_STORE, settings, request_id) :
              /\ contexts' = Append(contexts, out.context)
              /\ inject_calls' = Append(inject_calls,
                                        [decrypted |-> out.decrypted])
    /\ UNCHANGED <<settings, SECRET_STORE, active_sessions, session_ops>>
    /\ UNCHANGED engine_vars
    /\ UNCHANGED api_vars

InjectSecrets == InjectSecretsWith(RequestIds)

\* The same call where the request id is of no account: nothing in vault.py
\* reads it, and the secrets are the same for every id.
InjectSecretsForAccount ==
    InjectSecretsWith({CHOOSE r \in RequestIds : TRUE})

SearchParams == [query : {"", "frog"}, use_selenium : BOOLEAN]

\* The run of context c executes a browser.search node.
BrowserSearch ==
    /\ pc = "serving"
    /\ Len(session_ops) < MaxSearches
    /\ \E c \in 1..Len(contexts), params \in SearchParams :
          \E out \in browser_search(params, contexts[c], active_sessions) :
              /\ active_sessions' = out.sessions
              /\ contexts' = [contexts EXCEPT ![c].execution_log = @ \o out.entries]
              /\ session_ops' = Append(session_ops,
                                       [run |-> c, tool |-> "browser.search",
                                        params |-> params, ops |-> out.ops,
                                        result |-> out.result])
    /\ UNCHANGED <<settings, SECRET_STORE, inject_calls>>
    /\ UNCHANGED engine_vars
    /\ UNCHANGED api_vars

MaxCalls == 3

\* The adapter of tool is called with params and the context of run c, and
\* does one of the things in outs.
AdapterCall(c, tool, params, outs) ==
    /\ pc = "serving"
    /\ Len(session_ops) < MaxCalls
    /\ \E out \in outs :
          /\ active_sessions' = out.sessions
          /\ contexts' = [contexts EXCEPT ![c].execution_log = @ \o out.entries]
          /\ session_ops' = Append(session_ops,
                                   [run |-> c, tool |-> tool, params |-> params,
                                    ops |-> out.ops, result |-> out.result])
    /\ UNCHANGED <<settings, SECRET_STORE, inject_calls>>
    /\ UNCHANGED engine_vars
    /\ UNCHANGED api_vars

NavigateParams == [url : {"", "http://x"}, use_selenium : BOOLEAN]

SelectorParams == [selector : {"", "h1"}]

BrowserNavigate ==
    \E c \in 1..Len(contexts), params \in NavigateParams :
        AdapterCall(c, "browser.navigate", params,
                    browser_navigate(params, contexts[c], active_sessions))

BrowserExtract ==
    \E c \in 1..Len(contexts), params \in SelectorParams :
        AdapterCall(c, "browser.extract", params,
                    browser_extract(params, contexts[c], active_sessions))

BrowserScreenshot ==
    \E c \in 1..Len(contexts), params \in SelectorParams :
        AdapterCall(c, "browser.screenshot", params,
                    browser_screenshot(params, contexts[c], active_sessions))

\* close_browser_session(ctx), called as tests/test_browserbase.py calls it.
CloseBrowserSession ==
    \E c \in 1..Len(contexts) :
        AdapterCall(c, "browser.close", EmptyMap,
                    close_session(contexts[c], active_sessions))

\* An adapter that does not use the session pool.
PlainOutcomes(outs) ==
    {Searched(o.result, active_sessions, o.entries, <<>>) : o \in outs}

PythonExec ==
    \E c \in 1..Len(contexts),
       params \in {EmptyMap, [code |-> Lit("")], [code |-> Lit("print(1)")]} :
        AdapterCall(c, "python.exec", params, PlainOutcomes(python_exec(params)))

HttpRequest ==
    \E c \in 1..Len(contexts),
       params \in {EmptyMap, [url |-> Lit("http://x")]} :
        AdapterCall(c, "http.request", params, PlainOutcomes(http_request(params)))

\* run_workflow lines 167-171: the nodes of the run, whose adapters made the
\* calls above, are done; the terminal event carries the log of the run's
\* context. Nothing between the last node and this event touches
\* active_sessions.
RunEnds ==
    /\ pc = "serving"
    /\ contexts # <<>>
    /\ pc' = "done"
    /\ events' = Append(events, [type |-> "workflow_complete",
                                 execution_log |-> contexts[1].execution_log])
    /\ UNCHANGED <<workflow, i, execution_order, node_results, execution_log,
                   tool_calls, ret>>
    /\ UNCHANGED vault_vars
    /\ UNCHANGED api_vars

\* One run between the creation of its context (api.py lines 140-141) and
\* its terminal event.
InitBrowser ==
    /\ Serving
    /\ settings = [openai_key |-> None, vault_key |-> None]
    /\ SECRET_STORE = EmptyMap
    /\ active_sessions = EmptyMap
    /\ session_ops = <<>>
    /\ \E r \in RequestIds :
          \E out \in inject_secrets(None, SECRET_STORE, settings, r) :
              /\ contexts = <<out.context>>
              /\ inject_calls = <<[decrypted |-> out.decrypted]>>

NextBrowser ==
    \/ BrowserSearch
    \/ BrowserNavigate
    \/ BrowserExtract
    \/ BrowserScreenshot
    \/ CloseBrowserSession
    \/ PythonExec
    \/ HttpRequest
    \/ RunEnds

SpecBrowser == InitBrowser /\ [][NextBrowser]_vars

NextVault ==
    \/ StoreSecret
    \/ InjectSecretsForAccount

SpecVault == InitVault /\ [][NextVault]_vars

NextRuns ==
    \/ InjectSecrets
    \/ BrowserSearch

InitRuns == Serving /\ VaultAtImport

SpecRuns == InitRuns /\ [][NextRuns]_vars

---------------------------------------------------------------------------
(* app/api.py: POST /v1/chat/completions *)

\* The header and the token are taken apart character by character, so the
\* strings verify_api_key reads are sequences of characters.
BearerPrefix == <<"B", "e", "a", "r", "e", "r", " ">>

KeyPrefix == <<"s", "k", "-", "f", "r", "o", "g">>

\* Authorization headers of the requests: none, a key without the scheme, a
\* foreign key, a key naming an account, a key naming none, and a key whose
\* account part is empty.
Authorizations ==
    {<<>>,
     <<"s", "k", "-", "f", "r", "o", "g", "_", "l", "i", "v", "e", "_", "a", "c", "c", "t", "1">>,
     <<"B", "e", "a", "r", "e", "r", " ", "i", "n", "v", "a", "l", "i", "d", "_", "k", "e", "y">>,
     <<"B", "e", "a", "r", "e", "r", " ", "s", "k", "-", "f", "r", "o", "g", "_", "l", "i", "v", "e", "_", "a", "c", "c", "t", "1">>,
     <<"B", "e", "a", "r", "e", "r", " ", "s", "k", "-", "f", "r", "o", "g">>,
     <<"B", "e", "a", "r", "e", "r", " ", "s", "k", "-", "f", "r", "o", "g", "_", "l", "i", "v", "e", "_">>}

\* str.startswith
StartsWith(s, prefix) ==
    Len(s) >= Len(prefix) /\ SubSeq(s, 1, Len(prefix)) = prefix

\* The str of a sequence of characters.
RECURSIVE Text(_)
Text(s) == IF s = <<>> THEN "" ELSE Head(s) \o Text(Tail(s))

\* str.split(sep): the pieces between the occurrences of sep.
RECURSIVE Split(_, _, _)
Split(s, sep, piece) ==
    IF s = <<>> THEN <<piece>>
    ELSE IF Head(s) = sep THEN <<piece>> \o Split(Tail(s), sep, <<>>)
    ELSE Split(Tail(s), sep, Append(piece, Head(s)))

\* sep.join(parts)
RECURSIVE Join(_, _)
Join(parts, sep) ==
    IF parts = <<>> THEN <<>>
    ELSE IF Len(parts) = 1 THEN parts[1]
    ELSE parts[1] \o <<sep>> \o Join(Tail(parts), sep)

Unauthorized(detail) ==
    [status |-> 401, detail |-> detail, token |-> None, account_id |-> None]

\* verify_api_key that accepts every bearer token.
verify_api_key_any_bearer(authorization) ==
    IF authorization = <<>>
    THEN Unauthorized("Missing Authorization header")
    ELSE IF ~StartsWith(authorization, BearerPrefix)
    THEN Unauthorized("Invalid Authorization format")
    ELSE [status |-> 200, detail |-> "",
          token |-> Text(SubSeq(authorization, 8, Len(authorization))),
          account_id |-> "default"]

\* verify_api_key(authorization): HTTPException(401), or (token, account_id).
verify_api_key(authorization) ==
    IF authorization = <<>>
    THEN Unauthorized("Missing Authorization header")
    ELSE IF ~StartsWith(authorization, BearerPrefix)
    THEN Unauthorized("Invalid Authorization format")
    ELSE LET token == SubSeq(authorization, 8, Len(authorization))
         IN  IF ~StartsWith(token, KeyPrefix)
             THEN Unauthorized("Invalid API key")
             ELSE LET parts == Split(token, "_", <<>>)
                      account_id ==
                          IF Len(parts) >= 3
                          THEN Text(Join(SubSeq(parts, 3, Len(parts)), "_"))
                          ELSE "default"
                  IN  [status |-> 200, detail |-> "", token |-> Text(token),
                       account_id |-> account_id]

\* get_base_workflow(): the planner graph think <- plan <- execute.
get_base_workflow ==
    [id |-> "base_planner", name |-> "Planner Thinking Model",
     nodes |-> <<[id |-> "think",
                  tool |-> [type |-> "reasoning.think",
                            parameters |-> [approach |-> Lit("step_by_step")]],
                  depends_on |-> <<>>],
                 [id |-> "plan",
                  tool |-> [type |-> "planning.create",
                            parameters |-> [strategy |-> Lit("goal_oriented")]],
                  depends_on |-> <<"think">>],
                 [id |-> "execute",
                  tool |-> [type |-> "execution.run",
                            parameters |-> [follow_plan |-> Lit("True")]],
                  depends_on |-> <<"plan">>]>>]

\* request.workflow is None.
NoWorkflow == [absent |-> TRUE]

Succeeding == [type |-> "python.exec", parameters |-> [code |-> Lit("print(1)")]]

\* A supplied workflow with a fan-out: B and C both depend on A.
FanOutWorkflow ==
    MakeWorkflow(<<"A", "B", "C">>, <<Succeeding, Succeeding, Succeeding>>,
                 <<<<>>, <<"A">>, <<"A">>>>)

\* A supplied workflow that declares A twice, the first time depending on A.
ShadowedWorkflow ==
    MakeWorkflow(<<"A", "A">>, <<Succeeding, Succeeding>>, <<<<"A">>, <<>>>>)

\* A supplied workflow that declares B twice, the first time depending on A:
\* the scheduler reads the last declaration, the executor the first.
RedeclaredWorkflow ==
    MakeWorkflow(<<"A", "B", "B">>, <<Succeeding, Succeeding, Succeeding>>,
                 <<<<>>, <<"A">>, <<>>>>)

\* Environments the process can be started in: with or without the shared
\* provider key.
ApiSettings ==
    {[openai_key |-> None, vault_key |-> None],
     [openai_key |-> "sk-global", vault_key |-> None]}

\* The process is up and a request has arrived.
InitApi ==
    /\ workflow = MakeWorkflow(<<>>, <<>>, <<>>)
    /\ pc = "request"
    /\ i = 1
    /\ execution_order = <<>>
    /\ node_results = EmptyMap
    /\ execution_log = <<>>
    /\ events = <<>>
    /\ tool_calls = <<>>
    /\ ret = NoCall
    /\ settings \in ApiSettings
    /\ SECRET_STORE = EmptyMap
    /\ contexts = <<>>
    /\ inject_calls = <<>>
    /\ active_sessions = EmptyMap
    /\ session_ops = <<>>
    /\ response = NoResponse
    /\ \E authorization \in Authorizations, messages \in {<<>>, <<"hi">>},
          stream \in BOOLEAN, workflow_id \in {None, "wf_1"} :
          \E n \in 0..MaxExecNodes :
              \E ids \in IdSeqs(n), prof \in [1..n -> ToolProfiles],
                 deps \in [1..n -> DepLists] :
                  \E given \in {NoWorkflow, FanOutWorkflow, ShadowedWorkflow,
                                RedeclaredWorkflow,
                                MakeWorkflow(ids, prof, deps)} :
                      request = [authorization |-> authorization,
                                 messages |-> messages, stream |-> stream,
                                 workflow_id |-> workflow_id,
                                 workflow |-> given, account_id |-> None]

\* Depends(verify_api_key): the 401 is the response, or the handler runs.
VerifyApiKey ==
    /\ pc = "request"
    /\ LET auth_info == verify_api_key(request.authorization)
       IN  IF auth_info.status = 401
           THEN /\ response' = [status |-> 401, detail |-> auth_info.detail]
                /\ pc' = "responded"
                /\ UNCHANGED request
           ELSE /\ request' = [request EXCEPT !.account_id = auth_info.account_id]
                /\ pc' = "handler"
                /\ UNCHANGED response
    /\ UNCHANGED <<workflow, i, execution_order, node_results, execution_log,
                   events, tool_calls, ret>>
    /\ UNCHANGED vault_vars

\* has_frog_features (request.tools is not sent by the requests drawn here).
has_frog_features(req) == req.workflow # NoWorkflow \/ req.workflow_id # None

\* generate_openrouter_response: the answer of the model, or the fallback
\* built from the exception.
OpenRouterResponses ==
    {[status |-> 200, source |-> "openrouter", content |-> "answer"],
     [status |-> 200, source |-> "openrouter", content |-> "Error: request failed"]}

\* chat_completions up to the first event of the run: 400 without messages,
\* the OpenRouter answer without frog features, else the context is built
\* (api.py 128-141) and run_workflow starts.
ChatCompletions ==
    /\ pc = "handler"
    /\ IF request.messages = <<>>
       THEN /\ response' = [status |-> 400, detail |-> "Messages cannot be empty"]
            /\ pc' = "responded"
            /\ UNCHANGED <<workflow, contexts, inject_calls>>
       ELSE IF ~has_frog_features(request)
       THEN /\ response' \in OpenRouterResponses
            /\ pc' = "responded"
            /\ UNCHANGED <<workflow, contexts, inject_calls>>
       ELSE /\ workflow' = IF request.workflow = NoWorkflow
                           THEN get_base_workflow ELSE request.workflow
            /\ \E request_id \in {CHOOSE r \in RequestIds : TRUE} :
                  \E out \in inject_secrets(request.account_id, SECRET_STORE,
                                            settings, request_id) :
                      /\ contexts' = Append(contexts, out.context)
                      /\ inject_calls' = Append(inject_calls,
                                                [decrypted |-> out.decrypted])
            /\ pc' = "start"
            /\ UNCHANGED response
    /\ UNCHANGED <<i, execution_order, node_results, execution_log, events,
                   tool_calls, ret, request>>
    /\ UNCHANGED <<settings, SECRET_STORE, active_sessions, session_ops>>

FinalChunk ==
    [object |-> "chat.completion.chunk", delta |-> EmptyMap,
     finish_reason |-> "stop"]

Done == [data |-> "[DONE]"]

\* Lines 147-189: the lines of the streamed body for the events of the run.
StreamChunk(e) ==
    IF e.type = "message"
    THEN [object |-> "chat.completion.chunk",
          delta |-> [content |-> e.content], finish_reason |-> None]
    ELSE e

StreamBody(wf, evts) ==
    <<[type |-> "workflow_start", workflow_id |-> wf.id]>>
        \o [k \in 1..Len(evts) |-> StreamChunk(evts[k])]
        \o <<FinalChunk, Done>>

\* Lines 192-217: the content is the joined message events, or the fixed
\* text when there is none.
ChatResponse(evts) ==
    LET content_parts ==
            SelectSeq(evts, LAMBDA e : e.type = "message")
    IN  [object |-> "chat.completion",
         content |-> [k \in 1..Len(content_parts) |-> content_parts[k].content],
         fallback |-> IF content_parts = <<>> THEN "Workflow completed" ELSE "",
         finish_reason |-> "stop"]

\* The run is over: the body of the response is complete.
Respond ==
    /\ pc = "done"
    /\ request # NoRequest
    /\ response' = [status |-> 200,
                    body |-> IF request.stream
                             THEN StreamBody(workflow, events)
                             ELSE <<ChatResponse(events)>>]
    /\ pc' = "responded"
    /\ UNCHANGED <<workflow, i, execution_order, node_results, execution_log,
                   events, tool_calls, ret, request>>
    /\ UNCHANGED vault_vars

NextApi ==
    \/ VerifyApiKey
    \/ ChatCompletions
    \/ RejectInvalid
    \/ RejectCycle
    \/ WorkflowStart
    \/ NodeStart
    \/ NodeComplete
    \/ NodeError
    \/ EmitMessage
    \/ WorkflowComplete
    \/ Respond

SpecApi == InitApi /\ [][NextApi]_vars

---------------------------------------------------------------------------
(* Vocabulary of the properties *)

UniqueIds(wf) ==
    \A j, k \in 1..Len(wf.nodes) : j # k => wf.nodes[j].id # wf.nodes[k].id

HasDanglingDep(wf) ==
    \E k \in 1..Len(wf.nodes) :
        \E d \in Range(wf.nodes[k].depends_on) :
            \A j \in 1..Len(wf.nodes) : wf.nodes[j].id # d

\* a depends on b in the dependency graph that line 13 builds.
DependsOn(wf, a, b) == a \in NodeIdSet(wf) /\ b \in Range(Graph(wf)[a])

RECURSIVE DepClosure(_, _)
DepClosure(wf, S) ==
    LET more == S \cup {b \in NodeIdSet(wf) : \E a \in S : DependsOn(wf, a, b)}
    IN  IF more = S THEN S ELSE DepClosure(wf, more)

TransitiveDeps(wf, n) ==
    DepClosure(wf, {b \in NodeIdSet(wf) : DependsOn(wf, n, b)})

HasCycle(wf) == \E n \in NodeIdSet(wf) : n \in TransitiveDeps(wf, n)

Position(order, n) == CHOOSE k \in 1..Len(order) : order[k] = n

IsTopologicalOrder(wf, order) ==
    /\ Len(order) = Len(wf.nodes)
    /\ \A k \in 1..Len(wf.nodes) : Count(wf.nodes[k].id, order) = 1
    /\ \A k \in 1..Len(wf.nodes) :
          \A d \in Range(wf.nodes[k].depends_on) :
              /\ Count(d, order) = 1
              /\ Position(order, d) < Position(order, wf.nodes[k].id)

EventTypes == [k \in 1..Len(events) |-> events[k].type]

Started == pc # "start"

Scheduled == events # <<>> /\ events[1].type = "workflow_start"

CycleErrorEvent ==
    [type |-> "workflow_error", error |-> "Workflow contains cycles"]

InvalidDagEvent ==
    [type |-> "workflow_error", error |-> "Invalid workflow DAG"]

---------------------------------------------------------------------------
(* Properties *)

\* C1: for an acyclic workflow of N uniquely identified nodes whose
\* depends_on references all resolve, topological_sort returns an order of
\* length N that holds every node id exactly once, each after all the ids
\* of its depends_on (so the run is scheduled and starts with that order).
C1_AcyclicWorkflowIsOrdered ==
    (Started /\ UniqueIds(workflow) /\ ~HasDanglingDep(workflow)
             /\ ~HasCycle(workflow))
        => /\ Scheduled
           /\ IsTopologicalOrder(workflow, execution_order)

\* C2: for a workflow whose dependency graph has a cycle, topological_sort
\* raises the cycle error whatever the iteration order, and the run yields
\* exactly one event, a workflow_error: no workflow_start, no node event.
C2_CycleIsRejected ==
    HasCycle(workflow)
        => /\ \A set_order \in SetOrders(NodeIdSet(workflow)) :
                 topological_sort(workflow, set_order).raised
           /\ Started => /\ pc = "done"
                         /\ EventTypes = <<"workflow_error">>
                         /\ tool_calls = <<>>

C2_Witness ==
    /\ pc = "done"
    /\ Len(workflow.nodes) >= 2
    /\ UniqueIds(workflow)
    /\ HasCycle(workflow)
    /\ events = <<CycleErrorEvent>>

\* C3: when some depends_on names an id that is no node of the workflow,
\* the run yields a single workflow_error and stops before any node
\* executes: no tool is invoked, no node event is yielded, nothing is
\* appended to execution_log and no result is recorded.
C3_DanglingDependencyIsRejected ==
    (HasDanglingDep(workflow) /\ Started)
        => /\ pc = "done"
           /\ events = <<InvalidDagEvent>>
           /\ tool_calls = <<>>
           /\ execution_log = <<>>
           /\ node_results = EmptyMap

C3_Witness ==
    /\ pc = "done"
    /\ HasDanglingDep(workflow)
    /\ Len(workflow.nodes) >= 2
    /\ events = <<InvalidDagEvent>>

\* The first declaration of id, the one execute_node resolves.
NodeOf(wf, id) ==
    wf.nodes[CHOOSE k \in 1..Len(wf.nodes) :
                /\ wf.nodes[k].id = id
                /\ \A j \in 1..(k - 1) : wf.nodes[j].id # id]

Declared(wf, id) == \E k \in 1..Len(wf.nodes) : wf.nodes[k].id = id

\* The tool of the node cannot succeed: its type is unregistered, or its
\* adapter raises on every call (browser.close, called with two arguments).
ToolFails(node) ==
    \/ node.tool.type \notin TOOL_REGISTRY
    \/ node.tool.type = "browser.close"

IsErrorResultOf(result, id) ==
    /\ DOMAIN result = {"error", "node_id"}
    /\ result["node_id"] = id

\* C4: execute_node does not raise because of the tool: called for a
\* declared node whose dependencies are all recorded, when the tool type is
\* unregistered or the adapter raises, it returns a result that carries an
\* "error" key and the node's id under "node_id".
C4_ToolFailureIsReturned ==
    (/\ ret.called
     /\ Declared(workflow, ret.node_id)
     /\ Range(NodeOf(workflow, ret.node_id).depends_on) \subseteq DOMAIN node_results
     /\ ToolFails(NodeOf(workflow, ret.node_id)))
        => /\ ~ret.raised
           /\ "error" \in DOMAIN ret.result
           /\ "node_id" \in DOMAIN ret.result
           /\ ret.result["node_id"] = ret.node_id

C4_Witness ==
    /\ ret.called
    /\ Declared(workflow, ret.node_id)
    /\ NodeOf(workflow, ret.node_id).tool.type = "browser.close"
    /\ NodeOf(workflow, ret.node_id).depends_on # <<>>
    /\ ~ret.raised
    /\ IsErrorResultOf(ret.result, ret.node_id)
    /\ Len(tool_calls) = 1

\* Some node of the run failed at node level.
SomeNodeFailed ==
    \E n \in DOMAIN node_results : "error" \in DOMAIN node_results[n]

StartedNodes ==
    {events[k].node_id : k \in {j \in 1..Len(events) : events[j].type = "node_start"}}

\* C5: a run that passed validation and scheduling is never aborted by
\* node-level failures: it yields no workflow_error, and when it ends every
\* node of the execution order has been started and the stream ends with
\* message followed by workflow_complete.
C5_NodeFailuresDoNotAbort ==
    Scheduled
        => /\ \A k \in 1..Len(events) : events[k].type # "workflow_error"
           /\ pc = "done"
                => /\ Range(execution_order) \subseteq StartedNodes
                   /\ Len(events) >= 2
                   /\ events[Len(events) - 1].type = "message"
                   /\ events[Len(events)].type = "workflow_complete"

C5_Witness ==
    /\ pc = "done"
    /\ Scheduled
    /\ Len(execution_order) >= 2
    /\ \E n \in DOMAIN node_results :
          /\ IsErrorResultOf(node_results[n], n)
          /\ NodeOf(workflow, n).tool.type \notin TOOL_REGISTRY
    /\ \E n \in DOMAIN node_results :
          /\ IsErrorResultOf(node_results[n], n)
          /\ NodeOf(workflow, n).tool.type \in TOOL_REGISTRY
    /\ events[Len(events) - 1].type = "message"
    /\ events[Len(events)].type = "workflow_complete"

\* The type of the k-th event of a run of n nodes that was scheduled.
IsCompletion(e, id) ==
    /\ e.type \in {"node_complete", "node_error"}
    /\ e.node_id = id

FollowsProtocol(k, n) ==
    IF k = 1 THEN events[k].type = "workflow_start"
    ELSE IF k <= 2 * n + 1
    THEN IF k % 2 = 0
         THEN /\ events[k].type = "node_start"
              /\ events[k].node_id = execution_order[k \div 2]
         ELSE IsCompletion(events[k], execution_order[k \div 2])
    ELSE IF k = 2 * n + 2 THEN events[k].type = "message"
    ELSE k = 2 * n + 3 /\ events[k].type = "workflow_complete"

\* C6: a run that passed validation and scheduling yields, in this order:
\* one workflow_start; for each node of the execution order, in that order,
\* a node_start immediately followed by that node's completion event; one
\* message; one workflow_complete, with which the run ends.
C6_EventOrder ==
    Scheduled
        => /\ \A k \in 1..Len(events) : FollowsProtocol(k, Len(execution_order))
           /\ pc = "done" => Len(events) = 2 * Len(execution_order) + 3

C6_Witness ==
    /\ pc = "done"
    /\ Scheduled
    /\ Len(execution_order) >= 2
    /\ Len(events) = 2 * Len(execution_order) + 3

\* C7: the completion event of a node that failed is node_error and not
\* node_complete: no node_complete is yielded for a node whose tool type is
\* unregistered or whose tool raised.
C7_FailedNodeYieldsNodeError ==
    \A k \in 1..Len(events) :
        events[k].type = "node_complete"
            => ~ToolFails(NodeOf(workflow, events[k].node_id))

IsTerminal(e) == e.type \in {"workflow_error", "workflow_complete"}

\* C8: the terminal events are exclusive and final: no event follows a
\* workflow_error or a workflow_complete (so no stream holds both), and
\* the run has ended once one of them is yielded.
C8_TerminalEventsAreFinal ==
    /\ \A k \in 1..(Len(events) - 1) : ~IsTerminal(events[k])
    /\ (events # <<>> /\ IsTerminal(events[Len(events)])) => pc = "done"

C8_Witness ==
    /\ pc = "done"
    /\ Len(events) >= 5
    /\ events[Len(events)].type = "workflow_complete"

\* The call of the adapter that the direct execute_node call made.
PassedParams == tool_calls[1].params

CalledNode == NodeOf(workflow, ret.node_id)

DepKeysOf(node) == {"dep_" \o d : d \in Range(node.depends_on)}

DependenciesArePassed(node, params) ==
    \A d \in Range(node.depends_on) :
        /\ ("dep_" \o d) \in DOMAIN params
        /\ params["dep_" \o d] = node_results[d]

\* C9 as stated: the parameter map passed to the tool holds every declared
\* parameter with its declared value, one entry dep_<d> with d's recorded
\* result for every d of depends_on, and nothing else.
C9_DeclaredParametersKeepTheirValue ==
    (ret.called /\ tool_calls # <<>>)
        => /\ \A k \in DOMAIN CalledNode.tool.parameters :
                 /\ k \in DOMAIN PassedParams
                 /\ PassedParams[k] = CalledNode.tool.parameters[k]
           /\ DependenciesArePassed(CalledNode, PassedParams)
           /\ DOMAIN PassedParams =
                 DOMAIN CalledNode.tool.parameters \cup DepKeysOf(CalledNode)

\* C9, amended: the parameter map passed to the tool holds every declared
\* parameter whose key is not dep_<d> for a d of depends_on with its
\* declared value, one entry dep_<d> with d's recorded result for every d of
\* depends_on (it replaces a declared parameter of that name), and nothing
\* else.
C9_ParametersPassedToTool ==
    (ret.called /\ tool_calls # <<>>)
        => /\ \A k \in DOMAIN CalledNode.tool.parameters \ DepKeysOf(CalledNode) :
                 /\ k \in DOMAIN PassedParams
                 /\ PassedParams[k] = CalledNode.tool.parameters[k]
           /\ DependenciesArePassed(CalledNode, PassedParams)
           /\ DOMAIN PassedParams =
                 DOMAIN CalledNode.tool.parameters \cup DepKeysOf(CalledNode)

C9_Witness ==
    /\ ret.called
    /\ ~ret.raised
    /\ Len(tool_calls) = 1
    /\ CalledNode.depends_on = <<"A", "B">>
    /\ "code" \in DOMAIN CalledNode.tool.parameters
    /\ DOMAIN PassedParams = {"code", "dep_A", "dep_B"}
    /\ PassedParams["dep_A"] = node_results["A"]
    /\ PassedParams["dep_B"] = node_results["B"]

CallsOf(id) == {k \in 1..Len(tool_calls) : tool_calls[k].node_id = id}

\* C10: in a run of a well-formed workflow (unique ids, resolving
\* references, no cycle) in which node x fails, every other node is still
\* executed without raising, and the tool of every node y that depends on x
\* is called with dep_<x> bound to x's error-tagged result, a map with the
\* keys "error" and "node_id" = x.
C10_FailureIsPassedToDependents ==
    (/\ pc = "done"
     /\ UniqueIds(workflow)
     /\ ~HasDanglingDep(workflow)
     /\ ~HasCycle(workflow))
        => \A x, y \in 1..Len(workflow.nodes) :
              (x # y /\ ToolFails(workflow.nodes[x]))
                 => LET xid == workflow.nodes[x].id
                        yid == workflow.nodes[y].id
                    IN  /\ yid \in DOMAIN node_results
                        /\ \A k \in 1..Len(events) :
                              ~(events[k].type = "node_error"
                                  /\ events[k].node_id = yid)
                        /\ (/\ xid \in Range(workflow.nodes[y].depends_on)
                            /\ workflow.nodes[y].tool.type \in TOOL_REGISTRY)
                              => /\ CallsOf(yid) # {}
                                 /\ \A k \in CallsOf(yid) :
                                       /\ ("dep_" \o xid) \in
                                              DOMAIN tool_calls[k].params
                                       /\ IsErrorResultOf(
                                              tool_calls[k].params["dep_" \o xid],
                                              xid)

\* The entries of the log that execute_node appended (they name a node);
\* the other entries are those of the adapters (they name a tool).
IsEngineEntry(e) == "node_id" \in DOMAIN e

EngineEntries == SelectSeq(execution_log, IsEngineEntry)

IsNodeComplete(e) == e.type = "node_complete"

IsNodeError(e) == e.type = "node_error"

\* The nodes whose execution reached tool dispatch: execute_node returned.
DispatchedOf(id) ==
    {k \in 1..Len(events) : IsNodeComplete(events[k]) /\ events[k].node_id = id}

EngineEntriesOf(id) ==
    {k \in 1..Len(execution_log) :
        IsEngineEntry(execution_log[k]) /\ execution_log[k].node_id = id}

\* C11: each node execution that reaches tool dispatch appends exactly one
\* engine entry to execution_log whatever the outcome; the entry records
\* the node id, the tool type of the node and a status, success or error
\* (error exactly when the result is the engine's error result); hence
\* after a full run in which every node reached dispatch the log has at
\* least one entry per executed node.
C11_OneEntryPerDispatchedNode ==
    /\ \A id \in NodeIds :
          Cardinality(EngineEntriesOf(id)) = Cardinality(DispatchedOf(id))
    /\ \A k \in 1..Len(execution_log) :
          IsEngineEntry(execution_log[k])
             => LET e  == execution_log[k]
                    ev == events[CHOOSE j \in DispatchedOf(e.node_id) : TRUE]
                IN  /\ {"node_id", "tool_type", "status"} \subseteq DOMAIN e
                    /\ e.tool_type = NodeOf(workflow, e.node_id).tool.type
                    /\ e.status \in {"success", "error"}
                    /\ e.status = "error" <=> IsErrorResultOf(ev.result, e.node_id)
    /\ (pc = "done" /\ Scheduled
          /\ \A k \in 1..Len(events) : ~IsNodeError(events[k]))
          => Len(execution_log) >= Len(execution_order)

C11_Witness ==
    /\ pc = "done"
    /\ Len(execution_order) >= 2
    /\ Len(EngineEntries) = Len(execution_order)
    /\ \E k \in 1..Len(execution_log) : execution_log[k].status = "error"
    /\ \E k \in 1..Len(execution_log) :
          IsEngineEntry(execution_log[k]) /\ execution_log[k].status = "success"

IsPrefix(s, t) == Len(s) <= Len(t) /\ SubSeq(t, 1, Len(s)) = s

\* The nodes of the engine entries, in log order.
LoggedNodes == [k \in 1..Len(EngineEntries) |-> EngineEntries[k].node_id]

\* The nodes whose execution returned, in the order of their events.
DispatchedNodes ==
    LET done == SelectSeq(events, IsNodeComplete)
    IN  [k \in 1..Len(done) |-> done[k].node_id]

\* C12: execution_log is append-only during a run: across every step the
\* previous log is a prefix of the new log (no entry is removed, replaced
\* or reordered), and the engine's per-node entries appear in execution
\* order.
C12_LogIsAppendOnly ==
    /\ [][IsPrefix(execution_log, execution_log')]_vars
    /\ [](LoggedNodes = DispatchedNodes)

C12_Witness ==
    /\ pc = "done"
    /\ Len(EngineEntries) >= 2
    /\ Len(execution_log) > Len(EngineEntries)
    /\ LoggedNodes = execution_order

DeclaredIds(wf) == [k \in 1..Len(wf.nodes) |-> wf.nodes[k].id]

HasError(results, id) == id \in DOMAIN results /\ "error" \in DOMAIN results[id]

\* C13: the summary holds, after its header, exactly one line per node of
\* workflow.nodes in declaration order, marked failed with the captured
\* error text when the node's result has an "error" key and success
\* otherwise, then the aggregate X/Y with X the number of recorded results
\* without an "error" key and Y the number of nodes; it is the value of
\* generate_workflow_summary on the workflow and the results map.
C13_SummaryFollowsDeclarationOrder ==
    \A k \in 1..Len(events) :
        events[k].type = "message"
           => LET c == events[k].content
              IN  /\ c.header = workflow.name
                  /\ Len(c.lines) = Len(workflow.nodes)
                  /\ \A j \in 1..Len(workflow.nodes) :
                        LET id == workflow.nodes[j].id
                        IN  /\ c.lines[j].node_id = id
                            /\ c.lines[j].mark \in {"failed", "success"}
                            /\ c.lines[j].mark = "failed" <=> HasError(node_results, id)
                            /\ HasError(node_results, id)
                                  => c.lines[j].error = node_results[id]["error"]
                  /\ c.successful = Cardinality({n \in DOMAIN node_results :
                                                    ~HasError(node_results, n)})
                  /\ c.total = Len(workflow.nodes)
                  /\ c = generate_workflow_summary(workflow, node_results)

C13_Witness ==
    /\ pc = "done"
    /\ Len(workflow.nodes) >= 2
    /\ execution_order # DeclaredIds(workflow)
    /\ \E k \in 1..Len(events) :
          /\ events[k].type = "message"
          /\ events[k].content.successful = 1
          /\ events[k].content.total = 2
          /\ events[k].content.lines[1].mark # events[k].content.lines[2].mark

NoDependencies(wf) == \A k \in 1..Len(wf.nodes) : wf.nodes[k].depends_on = <<>>

\* C14: topological_sort breaks ties by declaration order: a workflow of
\* uniquely identified nodes without dependencies is scheduled exactly in
\* the order its nodes are declared (the same workflow always yields that
\* same order).
C14_TiesFollowDeclarationOrder ==
    (Scheduled /\ UniqueIds(workflow) /\ NoDependencies(workflow))
        => execution_order = DeclaredIds(workflow)

CompletedNodes ==
    {events[k].node_id :
        k \in {j \in 1..Len(events) :
                  events[j].type \in {"node_complete", "node_error"}}}

RunningNodes == StartedNodes \ CompletedNodes

\* C15: within one run nodes execute strictly one at a time: when a node's
\* node_start is emitted or its tool is invoked, every earlier node of the
\* order has its result recorded and its completion event emitted before,
\* so at no point are two nodes of the run running.
C15_OneNodeAtATime ==
    /\ Cardinality(RunningNodes) <= 1
    /\ \A k \in 1..Len(events) :
          events[k].type = "node_start"
             => LET p == Position(execution_order, events[k].node_id)
                IN  \A q \in 1..(p - 1) :
                       /\ execution_order[q] \in DOMAIN node_results
                       /\ \E j \in 1..(k - 1) :
                             IsCompletion(events[j], execution_order[q])
    /\ \A c \in 1..Len(tool_calls) :
          LET p == Position(execution_order, tool_calls[c].node_id)
          IN  /\ tool_calls[c].node_id \in StartedNodes
              /\ \A q \in 1..(p - 1) :
                    /\ execution_order[q] \in DOMAIN node_results
                    /\ execution_order[q] \in CompletedNodes
    /\ pc = "node_exec"
          => /\ RunningNodes = {execution_order[i]}
             /\ DOMAIN node_results = {execution_order[q] : q \in 1..(i - 1)}

C15_Witness ==
    /\ pc = "node_exec"
    /\ i = 2
    /\ RunningNodes = {execution_order[2]}
    /\ Len(tool_calls) = 1
    /\ NoDependencies(workflow)

\* The step is a call of inject_secrets: it returned one more context.
InjectStep == Len(contexts') = Len(contexts) + 1

NewContext == contexts'[Len(contexts')]

NewCall == inject_calls'[Len(inject_calls')]

HasAccount(c) == c.account_id # None

\* C16: a context built by inject_secrets for an absent account id has an
\* empty secrets map, whatever the secret store holds and even when a
\* global provider key is configured.
C16_NoAccountNoSecrets ==
    \A c \in 1..Len(contexts) :
        ~HasAccount(contexts[c]) => DOMAIN contexts[c].secrets = {}

C16_Witness ==
    /\ Len(contexts) = 2
    /\ settings.openai_key # None
    /\ HasAccount(contexts[1])
    /\ "TOKEN" \in DOMAIN contexts[1].secrets
    /\ ~HasAccount(contexts[2])
    /\ contexts[2].secrets = EmptyMap

\* C17 as stated: the contexts built for two different account ids have
\* disjoint secret maps: no entry (key with its value) is in both.
C17_SecretMapsAreDisjoint ==
    \A a, b \in 1..Len(contexts) :
        (/\ HasAccount(contexts[a])
         /\ HasAccount(contexts[b])
         /\ contexts[a].account_id # contexts[b].account_id)
            => \A k \in DOMAIN contexts[a].secrets \cap DOMAIN contexts[b].secrets :
                  contexts[a].secrets[k] # contexts[b].secrets[k]

\* C17, amended: every entry of the secret map inject_secrets builds for an
\* account is a globally configured secret or the decrypted value of an
\* entry stored under that same account: the maps of two accounts share
\* global entries, never an entry of the other account's store.
C17_SecretsAreGlobalOrOwn ==
    [][InjectStep
         => LET own == EntriesOf(SECRET_STORE, NewContext.account_id)
            IN  \A k \in DOMAIN NewContext.secrets :
                   \/ /\ k \in DOMAIN own
                      /\ NewContext.secrets[k] = own[k].plaintext
                   \/ /\ k = "OPENAI_API_KEY"
                      /\ settings.openai_key # None
                      /\ NewContext.secrets[k] = settings.openai_key]_vars

C17_Witness ==
    /\ Len(contexts) = 2
    /\ contexts[1].account_id = "acct1"
    /\ contexts[2].account_id = "acct2"
    /\ DOMAIN contexts[1].secrets = {"OPENAI_API_KEY", "TOKEN"}
    /\ DOMAIN contexts[2].secrets = {"OPENAI_API_KEY", "TOKEN"}
    /\ contexts[1].secrets["OPENAI_API_KEY"] = contexts[2].secrets["OPENAI_API_KEY"]
    /\ contexts[1].secrets["TOKEN"] # contexts[2].secrets["TOKEN"]

\* C18: for a present account id A the secrets of the context built by
\* inject_secrets are exactly the globally configured secrets merged with
\* the secrets stored under A that decrypted, A's value winning on a key
\* collision; and a store_secret under another account B changes neither a
\* context already built nor any context inject_secrets can build for A.
C18_SecretsOfAccountOnly ==
    /\ [][(InjectStep /\ HasAccount(NewContext))
            => LET own    == EntriesOf(SECRET_STORE, NewContext.account_id)
                   D      == NewCall.decrypted
                   global == IF settings.openai_key # None
                             THEN {"OPENAI_API_KEY"} ELSE {}
               IN  /\ D \subseteq DOMAIN own
                   /\ DOMAIN NewContext.secrets = D \cup global
                   /\ \A k \in D : NewContext.secrets[k] = own[k].plaintext
                   /\ \A k \in global \ D :
                         NewContext.secrets[k] = settings.openai_key]_vars
    /\ [][SECRET_STORE' # SECRET_STORE
            => \A B \in Accounts : \A key \in SecretKeys : \A value \in SecretValues[B] :
                  SECRET_STORE' \in store_secret(SECRET_STORE, B, key, value, settings)
                     => /\ \A c \in 1..Len(contexts) :
                              /\ c <= Len(contexts')
                              /\ contexts'[c].secrets = contexts[c].secrets
                        /\ \A A \in Accounts \ {B} : \A r \in RequestIds :
                              inject_secrets(A, SECRET_STORE', settings, r)
                                 = inject_secrets(A, SECRET_STORE, settings, r)]_vars

C18_Witness ==
    /\ Len(contexts) >= 1
    /\ settings.openai_key = "sk-global"
    /\ contexts[1].account_id = "acct1"
    /\ contexts[1].secrets = [k \in {"OPENAI_API_KEY"} |-> "v1"]
    /\ "acct2" \in DOMAIN SECRET_STORE
    /\ "OPENAI_API_KEY" \in DOMAIN SECRET_STORE["acct2"]

\* C19: when the decryption of a stored secret of the account fails,
\* inject_secrets still returns a context; it omits the entries that failed
\* and holds every entry of the account that decrypted and the global
\* secrets (a global secret stays under the key of an entry that failed).
C19_FailedDecryptionIsSkipped ==
    [][InjectStep
         => LET own    == EntriesOf(SECRET_STORE, NewContext.account_id)
                common == CommonSecrets(settings)
                failed == DOMAIN own \ NewCall.decrypted
            IN  (HasAccount(NewContext) /\ failed # {})
                   => /\ \A k \in NewCall.decrypted :
                            /\ k \in DOMAIN NewContext.secrets
                            /\ NewContext.secrets[k] = own[k].plaintext
                      /\ \A k \in DOMAIN common \ NewCall.decrypted :
                            /\ k \in DOMAIN NewContext.secrets
                            /\ NewContext.secrets[k] = common[k]
                      /\ \A k \in failed \ DOMAIN common :
                            k \notin DOMAIN NewContext.secrets]_vars

\* The second context of the account lacks the account's own value of a
\* key that its first context had: that entry did not decrypt this time.
C19_Witness ==
    /\ Len(contexts) = 2
    /\ contexts[1].account_id = "acct1"
    /\ contexts[2].account_id = "acct1"
    /\ DOMAIN contexts[1].secrets = {"OPENAI_API_KEY", "TOKEN"}
    /\ contexts[1].secrets["OPENAI_API_KEY"] = "v1"
    /\ DOMAIN contexts[2].secrets = {"OPENAI_API_KEY", "TOKEN"}
    /\ contexts[2].secrets["OPENAI_API_KEY"] = "sk-global"
    /\ contexts[2].secrets["TOKEN"] = "v1"
    /\ inject_calls[2].decrypted = {"TOKEN"}

\* The runs that accessed the session filed under session_id.
RunsUsing(session_id) ==
    {session_ops[k].run :
        k \in {j \in 1..Len(session_ops) :
                  \E n \in 1..Len(session_ops[j].ops) :
                      session_ops[j].ops[n].session_id = session_id}}

\* C20: any two concurrently active runs have different request ids, so no
\* entry of active_sessions is read or created by two runs.
C20_RequestIdsAreUnique ==
    /\ \A a, b \in 1..Len(contexts) :
          a # b => contexts[a].request_id # contexts[b].request_id
    /\ \A r \in RequestIds : Cardinality(RunsUsing(r)) <= 1

---------------------------------------------------------------------------
(* Registry signatures, identifiers, validation and the node life cycle *)

\* The TypeError of a call with two arguments of a function that takes one.
ArityError ==
    "close_browser_session() takes 1 positional argument but 2 were given"

\* C22: every adapter of the tool registry has the signature
\* (parameters, context): the executor's call adapter(params, context) of a
\* registered tool type, browser.close included, reaches the adapter body and
\* never fails on the call itself.
C22_RegisteredAdaptersAcceptTheCall ==
    (pc = "returned" /\ ret.called) =>
        \A k \in 1..Len(tool_calls) :
            tool_calls[k].tool_type \in TOOL_REGISTRY =>
                ret.result # ErrorResult(tool_calls[k].node_id, ArityError)

StartEvents == {k \in 1..Len(events) : events[k].type = "node_start"}

\* C26: node ids are unique within every workflow the engine executes:
\* whenever a node_start has been emitted, no two nodes of the running
\* workflow share an id.
C26_ExecutedWorkflowHasUniqueIds ==
    StartEvents # {} => UniqueIds(workflow)

DependsOnItself(wf) ==
    \E k \in 1..Len(wf.nodes) : wf.nodes[k].id \in Range(wf.nodes[k].depends_on)

\* C28: validate_dag returns true exactly when every depends_on reference of
\* every node names a node id of the same workflow, with or without a cycle or
\* a self-dependency: run_workflow yields the validation error only for a
\* dangling reference, and a workflow with a cycle that passes validation is
\* rejected by topological_sort.
C28_ValidateDagChecksReferencesOnly ==
    /\ validate_dag(workflow) <=> ~HasDanglingDep(workflow)
    /\ (Started /\ events[1] = InvalidDagEvent) => HasDanglingDep(workflow)
    /\ (Started /\ events[1] # CycleErrorEvent /\ validate_dag(workflow))
          => ~HasCycle(workflow)

C28_Witness ==
    /\ pc = "done"
    /\ Len(workflow.nodes) = 2
    /\ UniqueIds(workflow)
    /\ DependsOnItself(workflow)
    /\ ~HasDanglingDep(workflow)
    /\ validate_dag(workflow)
    /\ events = <<CycleErrorEvent>>

\* The nodes topological_sort puts in the queue before its loop starts
\* (line 23: the ids whose in_degree is 0).
InitialReady(wf) == {n \in NodeIdSet(wf) : InDegree(wf)[n] = 0}

\* C29: in topological_sort the in-degree of a node counts its dependencies:
\* for a workflow of uniquely identified nodes whose references resolve, a
\* node is in the initial ready queue exactly when its depends_on is empty.
C29_ReadyQueueHoldsNodesWithoutDependencies ==
    (Started /\ UniqueIds(workflow) /\ validate_dag(workflow)) =>
        InitialReady(workflow) =
            {n \in NodeIdSet(workflow) : Graph(workflow)[n] = <<>>}

CompletionEvents ==
    {k \in 1..Len(events) : events[k].type \in {"node_complete", "node_error"}}

\* C30: in a run that reaches workflow_complete every declared node has
\* exactly one node_start, exactly one completion event and exactly one
\* recorded result, and the number of node_start events is the node count
\* that workflow_start reported.
C30_EachNodeRunsExactlyOnce ==
    (pc = "done" /\ events[Len(events)].type = "workflow_complete") =>
        /\ \A n \in NodeIdSet(workflow) :
              /\ Cardinality({k \in StartEvents : events[k].node_id = n}) = 1
              /\ Cardinality({k \in CompletionEvents : events[k].node_id = n}) = 1
              /\ n \in DOMAIN node_results
        /\ Cardinality(StartEvents) = events[1].nodes

---------------------------------------------------------------------------
(* The API: authentication, the default workflow, the response, secrets *)

\* The values of the secrets of the context the run was given.
RunSecrets ==
    IF contexts = <<>> THEN {}
    ELSE {contexts[1].secrets[k] : k \in DOMAIN contexts[1].secrets}

\* The event is the one its type prescribes for the workflow, the order, the
\* recorded results and the log: nothing else goes into it.
IsPublicEvent(e) ==
    CASE e.type = "workflow_error" ->
            e \in {InvalidDagEvent, CycleErrorEvent}
      [] e.type = "workflow_start" ->
            e = [type |-> "workflow_start", workflow_id |-> workflow.id,
                 nodes |-> Len(workflow.nodes),
                 execution_order |-> execution_order]
      [] e.type = "node_start" ->
            /\ DOMAIN e = {"type", "node_id"}
            /\ e.node_id \in Range(execution_order)
      [] e.type = "node_complete" ->
            e = [type |-> "node_complete", node_id |-> e.node_id,
                 result |-> node_results[e.node_id]]
      [] e.type = "node_error" ->
            e = [type |-> "node_error", node_id |-> e.node_id,
                 error |-> node_results[e.node_id].error]
      [] e.type = "message" ->
            e = [type |-> "message", role |-> "assistant",
                 content |-> generate_workflow_summary(workflow, node_results)]
      [] e.type = "workflow_complete" ->
            e = [type |-> "workflow_complete", execution_log |-> execution_log]
      [] OTHER -> FALSE

\* The texts of a result or log entry.
TextsOf(r) ==
    {r[f] : f \in DOMAIN r \cap {"error", "output", "status", "url", "node_id",
                                 "tool", "tool_type", "method"}}

\* C21: secrets are never echoed: every event run_workflow has emitted is
\* determined by the workflow, the execution order, the recorded tool
\* results and the log alone (two runs with the same workflow and tool
\* results emit the same stream whatever context.secrets holds), and no
\* recorded result or log entry holds a value of context.secrets.
C21_SecretsAreNeverEchoed ==
    /\ \A k \in 1..Len(events) : IsPublicEvent(events[k])
    /\ \A n \in DOMAIN node_results : TextsOf(node_results[n]) \cap RunSecrets = {}
    /\ \A k \in 1..Len(execution_log) :
          TextsOf(execution_log[k]) \cap RunSecrets = {}

C21_Witness ==
    /\ pc = "responded"
    /\ request.stream
    /\ settings.openai_key = "sk-global"
    /\ events # <<>>
    /\ contexts[1].secrets = [OPENAI_API_KEY |-> "sk-global"]
    /\ events[Len(events)].type = "workflow_complete"
    /\ \E k \in 1..Len(events) :
          /\ events[k].type = "node_complete"
          /\ events[k].result = [status_code |-> 200, url |-> "http://x"]
    /\ response.body[Len(events) + 1] = events[Len(events)]

WorkflowFailed ==
    events # <<>> /\ events[Len(events)].type = "workflow_error"

ReportsFailure(resp) ==
    \E k \in 1..Len(resp.body) :
        "type" \in DOMAIN resp.body[k] /\ resp.body[k].type = "workflow_error"

NormalCompletion(resp) ==
    /\ resp.status = 200
    /\ \E k \in 1..Len(resp.body) :
          /\ "finish_reason" \in DOMAIN resp.body[k]
          /\ resp.body[k].finish_reason = "stop"

\* C23: a run that ends with a workflow-level failure (validation failure or
\* cycle) surfaces as a terminal error to the caller: the response built from
\* that run reports the failure and is not a normal successful completion.
C23_WorkflowFailureReachesTheCaller ==
    (pc = "responded" /\ WorkflowFailed) =>
        /\ ReportsFailure(response)
        /\ ~NormalCompletion(response)

\* C24: the workflow A, B depending on A, C depending on A, with tools that
\* all succeed, runs in the order A, B, C or A, C, B and ends with
\* workflow_complete after a message reporting 3 of 3 nodes successful.
C24_FanOutRunsToCompletion ==
    (pc = "responded" /\ workflow = FanOutWorkflow) =>
        /\ execution_order \in {<<"A", "B", "C">>, <<"A", "C", "B">>}
        /\ events[Len(events)].type = "workflow_complete"
        /\ \E k \in 1..Len(events) :
              /\ events[k].type = "message"
              /\ events[k].content.successful = 3
              /\ events[k].content.total = 3

StartedInOrder ==
    LET starts == SelectSeq(events, LAMBDA e : e.type = "node_start")
    IN  [k \in 1..Len(starts) |-> starts[k].node_id]

\* C25: when the request supplies no workflow, the default graph
\* think -> plan -> execute passes validation and scheduling, and its three
\* nodes are started in the order think, plan, execute.
C25_DefaultGraphIsRun ==
    (pc = "responded" /\ request.workflow = NoWorkflow /\ contexts # <<>>) =>
        /\ Scheduled
        /\ StartedInOrder = <<"think", "plan", "execute">>

\* The header fails one of the three tests of the API key.
Rejectable(authorization) ==
    \/ authorization = <<>>
    \/ ~StartsWith(authorization, BearerPrefix)
    \/ ~StartsWith(SubSeq(authorization, 8, Len(authorization)), KeyPrefix)

\* C27: a request without an Authorization header, without the "Bearer "
\* prefix, or whose token does not start with "sk-frog" is answered with
\* status 401, and no context is built and no workflow node runs for it.
C27_UnauthenticatedRequestIsRejected ==
    (request # NoRequest /\ Rejectable(request.authorization) /\ pc # "request") =>
        /\ pc = "responded"
        /\ response.status = 401
        /\ contexts = <<>>
        /\ events = <<>>
        /\ tool_calls = <<>>
        /\ execution_log = <<>>

C27_Witness ==
    /\ pc = "responded"
    /\ Text(request.authorization) = "Bearer invalid_key"
    /\ request.messages # <<>>
    /\ request.workflow = FanOutWorkflow
    /\ response = [status |-> 401, detail |-> "Invalid API key"]
    /\ contexts = <<>>

---------------------------------------------------------------------------
(* The dependency check, the records of an outcome, the frame of a run *)

\* The direct call was for a declared node one of whose dependencies has no
\* recorded result.
MissingDependency ==
    /\ pc = "returned"
    /\ Declared(workflow, ret.node_id)
    /\ \E d \in Range(NodeOf(workflow, ret.node_id).depends_on) :
          d \notin DOMAIN node_results

\* C31: execute_node called for a node one of whose declared dependencies
\* has no recorded result raises: no adapter is looked up or invoked,
\* nothing is appended to execution_log and the recorded results are the
\* same after the call.
C31_MissingDependencyFailsLoudly ==
    [][MissingDependency' =>
          /\ ret'.raised
          /\ tool_calls' = <<>>
          /\ execution_log' = execution_log
          /\ node_results' = node_results]_vars

C31_Witness ==
    /\ MissingDependency
    /\ ret.raised
    /\ ret.error = "Dependency B not satisfied for node A"
    /\ DOMAIN node_results = {"A"}
    /\ NodeOf(workflow, "A").tool.type = "python.exec"
    /\ execution_log = <<>>

\* The summary line of the node with this id.
SummaryMark(content, id) ==
    {content.lines[k].mark :
        k \in {j \in 1..Len(content.lines) : content.lines[j].node_id = id}}

\* C32: for every executed node the three records of its outcome agree: its
\* engine log entry has status "error" exactly when its recorded result has
\* an "error" key, exactly when the summary marks the node as failed.
C32_OutcomeRecordsAgree ==
    \A k \in 1..Len(events) :
        events[k].type = "message" =>
            \A n \in DOMAIN node_results :
                /\ HasError(node_results, n) <=>
                      SummaryMark(events[k].content, n) = {"failed"}
                /\ \A j \in EngineEntriesOf(n) :
                      execution_log[j].status = "error" <=>
                          HasError(node_results, n)

EngineSteps == {"start", "node_start", "node_exec", "summary", "complete"}

\* C33: while the engine runs (run_workflow, execute_node, the summary) the
\* workflow and the secrets of every context stay as they are: the node
\* list, every depends_on and every declared parameter are unchanged, the
\* dep_<id> entries going into the parameters of the call only.
C33_RunLeavesWorkflowAndSecretsUnchanged ==
    [][(pc \in EngineSteps) =>
          /\ workflow' = workflow
          /\ Len(contexts') = Len(contexts)
          /\ \A c \in 1..Len(contexts) :
                (contexts'[c].secrets = contexts[c].secrets)]_vars

C33_Witness ==
    /\ pc = "responded"
    /\ workflow = RedeclaredWorkflow
    /\ contexts # <<>>
    /\ contexts[1].secrets = [OPENAI_API_KEY |-> "sk-global"]
    /\ \E k \in 1..Len(tool_calls) :
          /\ tool_calls[k].node_id = "B"
          /\ DOMAIN tool_calls[k].params = {"code", "dep_A"}
    /\ DOMAIN NodeOf(workflow, "B").tool.parameters = {"code"}

\* The request was answered with the streamed body of a workflow run.
StreamedRun ==
    /\ pc = "responded"
    /\ request.stream
    /\ contexts # <<>>
    /\ "body" \in DOMAIN response

LinesOfType(body, types) ==
    {k \in 1..Len(body) : "type" \in DOMAIN body[k] /\ body[k].type \in types}

\* C38: in streaming mode the caller of a workflow request receives
\* workflow_start exactly once per run, before any node event, and the stream
\* ends with a finish_reason "stop" chunk followed by [DONE] as its last
\* item, whether the run completed or failed.
C38_StreamHasOneWorkflowStart ==
    StreamedRun =>
        /\ Cardinality(LinesOfType(response.body, {"workflow_start"})) = 1
        /\ \A s \in LinesOfType(response.body, {"workflow_start"}) :
              \A n \in LinesOfType(response.body,
                                   {"node_start", "node_complete", "node_error"}) :
                  s < n
        /\ response.body[Len(response.body) - 1] = FinalChunk
        /\ response.body[Len(response.body)] = Done

\* The call the last step made, when the step was an adapter call.
Called == session_ops' # session_ops

LastCall == session_ops[Len(session_ops)]

RunOf(call) == contexts[call.run]

MissingRequired(call) ==
    CASE call.tool = "browser.search"   -> call.params.query = ""
      [] call.tool = "browser.navigate" -> call.params.url = ""
      [] call.tool = "browser.extract"  -> call.params.selector = ""
      [] call.tool = "python.exec"      -> ~Truthy(call.params, "code")
      [] call.tool = "http.request"     -> ~Truthy(call.params, "url")
      [] OTHER                          -> FALSE

NeverRaises(call) ==
    CASE call.tool = "python.exec"  -> \A o \in python_exec(call.params) : ~o.raised
      [] call.tool = "http.request" -> \A o \in http_request(call.params) : ~o.raised
      [] OTHER                      -> TRUE

NoSession(call) == RunOf(call).request_id \notin DOMAIN active_sessions

NothingChanged ==
    /\ active_sessions' = active_sessions
    /\ contexts' = contexts

\* What the claim requires of a call made while the run has no session.
RefusedWithoutSession(call) ==
    /\ call.tool \in {"browser.extract", "browser.screenshot"}
          => call.result = NoSessionError
    /\ call.tool = "browser.close"
          => /\ "success" \in DOMAIN call.result
             /\ call.result.success = FALSE

SessionTools == {"browser.extract", "browser.screenshot", "browser.close"}

ClosedWithSession(call) ==
    /\ call.tool = "browser.close"
    /\ RunOf(call).request_id \in DOMAIN active_sessions

\* The step appended one entry to the log of run c, a browser.close entry.
OneCloseEntry(c) ==
    LET before == contexts[c].execution_log
        after  == contexts'[c].execution_log
    IN  /\ Len(after) = Len(before) + 1
        /\ SubSeq(after, 1, Len(before)) = before
        /\ after[Len(after)].tool = "browser.close"

\* browser.extract with a selector and browser.screenshot, called after the
\* step for run c, can only return the no-session error.
RefusedAfterwards(c) ==
    /\ \A out \in browser_extract([selector |-> "h1"], contexts'[c],
                                  active_sessions') :
          out.result = NoSessionError
    /\ \A params \in SelectorParams :
          \A out \in browser_screenshot(params, contexts'[c], active_sessions') :
              out.result = NoSessionError

ClosedAndRemoved(call) ==
    /\ RunOf(call).request_id \notin DOMAIN active_sessions'
    /\ "success" \in DOMAIN call.result
    /\ call.result.success = TRUE
    /\ "replay_url" \in DOMAIN call.result
    /\ contexts'[call.run].execution_log[Len(contexts'[call.run].execution_log)]
          = [tool |-> "browser.close", success |-> TRUE,
             replay_url |-> call.result.replay_url,
             browser_type |-> active_sessions[RunOf(call).request_id].type]
    /\ RefusedAfterwards(call.run)

CloseFailed(call) ==
    /\ "error" \in DOMAIN call.result
    /\ "success" \notin DOMAIN call.result
    /\ active_sessions' = active_sessions
    /\ contexts'[call.run].execution_log[Len(contexts'[call.run].execution_log)]
          = ToolFailed("browser.close", "exception")

\* C35 as stated: close_browser_session called for a context whose request
\* id has a session closes it, removes the request id from active_sessions,
\* appends exactly one browser.close entry and returns success with a
\* replay_url, after which browser.extract and browser.screenshot return the
\* no-session error.
C35_AsStated ==
    [][(Called /\ ClosedWithSession(LastCall'))
          => /\ OneCloseEntry(LastCall'.run)
             /\ ClosedAndRemoved(LastCall')]_vars

\* C35: close_browser_session called for a context whose request id has a
\* session appends exactly one browser.close entry to the log. When closing
\* the session does not raise, the request id is removed from
\* active_sessions, the result is success with a replay_url, and
\* browser.extract with a selector and browser.screenshot for that request
\* id return the no-session error again. When closing raises, the entry is
\* an error entry, the result is error-keyed, and the session stays in
\* active_sessions.
C35_CloseRemovesTheSessionUnlessClosingRaises ==
    [][(Called /\ ClosedWithSession(LastCall'))
          => /\ OneCloseEntry(LastCall'.run)
             /\ \/ ClosedAndRemoved(LastCall')
                \/ CloseFailed(LastCall')]_vars

C35_Witness ==
    /\ Len(session_ops) = 3
    /\ session_ops[1].tool = "browser.navigate"
    /\ \E n \in 1..Len(session_ops[1].ops) : session_ops[1].ops[n].op = "create"
    /\ session_ops[2].tool = "browser.close"
    /\ session_ops[2].result.success = TRUE
    /\ session_ops[3].tool = "browser.extract"
    /\ session_ops[3].result = NoSessionError
    /\ active_sessions = EmptyMap
    /\ Len(contexts[1].execution_log) = 2
    /\ contexts[1].execution_log[2].tool = "browser.close"

Creates(call) == \E n \in 1..Len(call.ops) : call.ops[n].op = "create"

Deletes(call) == \E n \in 1..Len(call.ops) : call.ops[n].op = "delete"

\* Sessions opened for session_id and not removed since.
OpenSessions(session_id) ==
    Cardinality({k \in 1..Len(session_ops) :
                    /\ RunOf(session_ops[k]).request_id = session_id
                    /\ Creates(session_ops[k])})
    - Cardinality({k \in 1..Len(session_ops) :
                      /\ RunOf(session_ops[k]).request_id = session_id
                      /\ Deletes(session_ops[k])})

\* Every request id has at most one open session, the one filed in
\* active_sessions.
OneSessionPerRequestId ==
    \A session_id \in RequestIds :
        OpenSessions(session_id)
           = IF session_id \in DOMAIN active_sessions THEN 1 ELSE 0

\* C36: after every adapter call each request id has at most one open
\* session, the one filed in active_sessions; browser.search and
\* browser.navigate open a session only when the request id of the context
\* has none; a call of either made while it has one leaves
\* active_sessions as it is, so the type of the session stays the one chosen
\* when it was opened, whatever use_selenium the call passes.
C36_SessionIsReusedWithItsType ==
    [][Called
          => /\ OneSessionPerRequestId'
             /\ Creates(LastCall')
                => /\ LastCall'.tool \in {"browser.search", "browser.navigate"}
                   /\ NoSession(LastCall')
                   /\ ~MissingRequired(LastCall')
             /\ (LastCall'.tool \in {"browser.search", "browser.navigate"}
                 /\ ~NoSession(LastCall'))
                => active_sessions' = active_sessions
             /\ \A s \in DOMAIN active_sessions \cap DOMAIN active_sessions' :
                   active_sessions'[s].type = active_sessions[s].type]_vars

C36_Witness ==
    /\ Len(session_ops) = 3
    /\ session_ops[1].tool = "browser.navigate"
    /\ session_ops[1].params.use_selenium = TRUE
    /\ Creates(session_ops[1])
    /\ session_ops[2].tool = "browser.search"
    /\ session_ops[2].params = [query |-> "frog", use_selenium |-> FALSE]
    /\ ~Creates(session_ops[2])
    /\ "results" \in DOMAIN session_ops[2].result
    /\ session_ops[3].tool = "browser.navigate"
    /\ session_ops[3].params = [url |-> "http://x", use_selenium |-> FALSE]
    /\ "success" \in DOMAIN session_ops[3].result
    /\ active_sessions = [s \in {contexts[1].request_id} |-> [type |-> "selenium"]]

\* C37: once the run has emitted its terminal event, active_sessions holds
\* no entry keyed by the request id of the run.
C37_SessionsDoNotOutliveTheRun ==
    pc = "done" => contexts[1].request_id \notin DOMAIN active_sessions

====
